---- MODULE Spec2Model ----
(***************************************************************************)
(* Model of wabtcdi/user_service: the persistence schema (users,           *)
(* user_authentications, access_levels, user_access_levels), the two       *)
(* repositories over it and the services composing them.                   *)
(*                                                                         *)
(* Tables are sequences of rows (a heap: nothing in the representation     *)
(* forbids two rows with one key; the schema's constraints are modelled    *)
(* by the statements that write).  A NULL timestamp is 0.  time.Now() is   *)
(* a clock whose successive readings strictly increase.  uuid.New() draws  *)
(* the next value of a counter.  Every request is a process: its position  *)
(* in the handler is pc[p], its locals are in loc[p].  The HTTP handlers   *)
(* are the status they answer with; RealStarter.Start, its goroutine, the  *)
(* server and the two timers are the record starter.                       *)
(***************************************************************************)
EXTENDS Integers, Sequences, FiniteSets, TLC

VARIABLES
    users,            \* table users
    auths,            \* table user_authentications
    accessLevels,     \* table access_levels
    levelSeq,         \* the last value of the sequence of access_levels.id
    userAccessLevels, \* table user_access_levels
    clock,            \* the last reading of time.Now()
    uuidSeq,          \* the number of values uuid.New() has returned
    pc,               \* per request: where it stands in its handler
    loc,              \* per request: the locals of the call in progress
    result,           \* per request: what its last completed call returned
    tx,               \* per request: rows written by its open transaction
    overlap,          \* per request: another call ran during this one
    hist,             \* the last access-level repository calls that ran
                      \* one after another
    rolledBack,       \* ids of accounts whose Create was rolled back
    calls,            \* the number of calls made so far
    starter           \* the one call of RealStarter.Start: where Start and
                      \* its goroutine stand, the server, channel and timers

vars == <<users, auths, accessLevels, levelSeq, userAccessLevels, clock,
          uuidSeq, pc, loc, result, tx, overlap, hist, rolledBack, calls,
          starter>>

\* ------------------------------------------------------------- bounds

MaxCalls == 5
MaxUserCalls == 3
MaxUuid == 4
HistLen == 3

Procs == {"p1", "p2"}

\* A NULL timestamp (gorm.DeletedAt not set).
NULL == 0

\* ----------------------------------------------------- sequence helpers

Range(s) == {s[i] : i \in 1..Len(s)}

Count(s, Test(_)) == Cardinality({i \in 1..Len(s) : Test(s[i])})

LastN(s, n) == IF Len(s) <= n THEN s ELSE SubSeq(s, Len(s) - n + 1, Len(s))

\* ------------------------------------------------------------- schema

\* access_levels.name is a string; ORDER BY compares names, so each name
\* carries its rank in the collation.
NameRank(name) ==
    CASE name = "admin" -> 1
      [] name = "user" -> 2
      [] OTHER -> 3

\* The row of an account created for first name "User" and last name
\* "Test", without a phone number (NULL, here "").
UserRow(id, email, created, updated) ==
    [id |-> id, first_name |-> "User", last_name |-> "Test", email |-> email,
     phone_number |-> "", created_at |-> created, updated_at |-> updated,
     deleted_at |-> NULL]

\* A credential whose UserID was never set (uuid.Nil).
AuthRowNoUserID(id, userId, created, updated) ==
    [id |-> id, user_id |-> 0, password_hash |-> "", created_at |-> created,
     updated_at |-> updated, deleted_at |-> NULL]

AuthRow(id, userId, created, updated) ==
    [id |-> id, user_id |-> userId, password_hash |-> "",
     created_at |-> created, updated_at |-> updated, deleted_at |-> NULL]

AccessLevelRow(id, name, created, updated) ==
    [id |-> id, name |-> name, created_at |-> created,
     updated_at |-> updated, deleted_at |-> NULL]

UserAccessLevelRow(userId, levelId, now) ==
    [user_id |-> userId, access_level_id |-> levelId, created_at |-> now,
     updated_at |-> now, deleted_at |-> NULL]

NoUser == [id |-> 0, first_name |-> "", last_name |-> "", email |-> "",
           phone_number |-> "", created_at |-> NULL, updated_at |-> NULL,
           deleted_at |-> NULL]

\* An UpdateUserRequest with no field given.
NoReq == [first_name |-> "", last_name |-> "", email |-> "",
          phone_number |-> ""]

NoLoc == [op |-> "none", seq |-> 0, id |-> 0, lvl |-> 0, email |-> "",
          now |-> 0, user |-> NoUser, password |-> "", ids |-> <<>>,
          done |-> <<>>, before |-> <<>>, page |-> 0, pageSize |-> 0,
          limit |-> 0, offset |-> 0, total |-> 0, req |-> NoReq,
          name |-> ""]

NoTx == [users |-> <<>>, auths |-> <<>>]

\* RealStarter.Start has not been called.
NoStarter ==
    [main |-> "idle", addr |-> "", serve |-> "none", serveErr |-> "none",
     errChan |-> <<>>, timer |-> "off", inShutdown |-> FALSE,
     listener |-> "none", conns |-> 0, shutdownTimer |-> "off",
     ret |-> "none", sentFirst |-> FALSE]

\* bcrypt.GenerateFromPassword: the hash is not the password; the salt is
\* left out, so one password has one hash.
GenerateFromPassword(password) == "$2a$10$" \o password

\* bcrypt.CompareHashAndPassword: nil exactly when the hash is the
\* password's.
CompareHashAndPassword(hash, password) == hash = GenerateFromPassword(password)

\* gorm.DeletedAt: every query through the model carries deleted_at IS NULL.
Active(row) == row.deleted_at = NULL

\* ------------------------------------------------- calls and their record

Idle(p) == pc[p] = "idle"

\* A call may start while the bound on the run's length is not reached.
MayCall(p) == Idle(p) /\ calls < MaxCalls

Others(p) == Procs \ {p}

InFlight(p) == \E q \in Others(p) : pc[q] # "idle"

\* p starts a call that takes more than one step; calls numbers the calls.
Enter(p, label, locals) ==
    /\ pc' = [pc EXCEPT ![p] = label]
    /\ loc' = [loc EXCEPT ![p] = [locals EXCEPT !.seq = calls + 1]]
    /\ calls' = calls + 1
    /\ overlap' = [q \in Procs |->
                     IF q = p THEN InFlight(p) ELSE overlap[q] \/ pc[q] # "idle"]

\* What is kept of a completed call: the operation, the call's number, its
\* arguments, the error it returned ("ok" for nil), updated_at of the row it
\* was about, and whether another call ran during it.
Entry(op, seq, id, lvl, email, res, upd) ==
    [op |-> op, seq |-> seq, id |-> id, lvl |-> lvl, email |-> email,
     res |-> res, upd |-> upd, conc |-> FALSE]

NoEntry == Entry("none", 0, 0, 0, "", "none", NULL)

\* p's call returns.
Return(p, entry, overlapped) ==
    /\ pc' = [pc EXCEPT ![p] = "idle"]
    /\ loc' = [loc EXCEPT ![p] = NoLoc]
    /\ result' = [result EXCEPT ![p] = [entry EXCEPT !.conc = overlapped]]

\* hist keeps the calls that ran strictly one after another: a call that ran
\* while another was in flight starts it afresh.
Record(entry, overlapped) ==
    hist' = IF overlapped THEN <<>> ELSE LastN(Append(hist, entry), HistLen)

\* p made a call of one step: it ran during every call now in flight.
OverlapOthers(p) ==
    overlap' = [q \in Procs |-> IF q = p THEN FALSE
                                ELSE overlap[q] \/ pc[q] # "idle"]

\* p's call of several steps has returned.
OverlapDone(p) == overlap' = [overlap EXCEPT ![p] = FALSE]

\* ------------------------------------------------- access-level repository

SamePair(row, userId, levelId) ==
    row.user_id = userId /\ row.access_level_id = levelId

PairRows(table, userId, levelId) ==
    SelectSeq(table, LAMBDA row : SamePair(row, userId, levelId))

\* user_access_levels' foreign keys: both referenced rows must exist (a
\* soft-deleted row is still a row).
ForeignKeysHold(userId, levelId) ==
    /\ \E i \in 1..Len(users) : users[i].id = userId
    /\ \E i \in 1..Len(accessLevels) : accessLevels[i].id = levelId

\* A plain INSERT: the primary key rejects a second row for the pair.
UpsertNoConflictClause(table, userId, levelId, now) ==
    IF \E i \in 1..Len(table) : SamePair(table[i], userId, levelId)
    THEN [table |-> table, err |-> TRUE]
    ELSE [table |-> Append(table, UserAccessLevelRow(userId, levelId, now)),
          err |-> FALSE]

\* ON CONFLICT DO NOTHING: the existing row is left as it is.
UpsertDoNothing(table, userId, levelId, now) ==
    IF \E i \in 1..Len(table) : SamePair(table[i], userId, levelId)
    THEN [table |-> table, err |-> FALSE]
    ELSE [table |-> Append(table, UserAccessLevelRow(userId, levelId, now)),
          err |-> FALSE]

\* DoUpdates without updated_at: the revived row keeps its old updated_at.
UpsertKeepUpdatedAt(table, userId, levelId, now) ==
    IF \E i \in 1..Len(table) : SamePair(table[i], userId, levelId)
    THEN [table |-> [i \in 1..Len(table) |->
                       IF SamePair(table[i], userId, levelId)
                       THEN [table[i] EXCEPT !.deleted_at = NULL]
                       ELSE table[i]],
          err |-> FALSE]
    ELSE [table |-> Append(table, UserAccessLevelRow(userId, levelId, now)),
          err |-> FALSE]

\* A conflict target that sees only active rows (a partial unique index):
\* a soft-deleted row does not conflict and a second row is inserted.
UpsertActiveOnly(table, userId, levelId, now) ==
    IF \E i \in 1..Len(table) :
          SamePair(table[i], userId, levelId) /\ Active(table[i])
    THEN [table |-> [i \in 1..Len(table) |->
                       IF SamePair(table[i], userId, levelId) /\ Active(table[i])
                       THEN [table[i] EXCEPT !.updated_at = now]
                       ELSE table[i]],
          err |-> FALSE]
    ELSE [table |-> Append(table, UserAccessLevelRow(userId, levelId, now)),
          err |-> FALSE]

\* INSERT ... ON CONFLICT (user_id, access_level_id) DO UPDATE SET
\* deleted_at = NULL, updated_at = now: one statement.
Upsert(table, userId, levelId, now) ==
    IF \E i \in 1..Len(table) : SamePair(table[i], userId, levelId)
    THEN [table |-> [i \in 1..Len(table) |->
                       IF SamePair(table[i], userId, levelId)
                       THEN [table[i] EXCEPT !.deleted_at = NULL,
                                             !.updated_at = now]
                       ELSE table[i]],
          err |-> FALSE]
    ELSE [table |-> Append(table, UserAccessLevelRow(userId, levelId, now)),
          err |-> FALSE]

\* The soft delete gorm makes of Delete: UPDATE ... SET deleted_at = now
\* WHERE user_id = ? AND access_level_id = ? AND deleted_at IS NULL.
SoftDeletePair(table, userId, levelId, now) ==
    [i \in 1..Len(table) |->
       IF SamePair(table[i], userId, levelId) /\ Active(table[i])
       THEN [table[i] EXCEPT !.deleted_at = now]
       ELSE table[i]]

\* RowsAffected of a delete that does not carry the soft-delete scope: every
\* row of the pair counts, soft-deleted or not.
RowsAffectedPairUnscoped(table, userId, levelId) ==
    Count(table, LAMBDA row : SamePair(row, userId, levelId))

RowsAffectedPair(table, userId, levelId) ==
    Count(table, LAMBDA row : SamePair(row, userId, levelId) /\ Active(row))

\* updated_at of the pair's row (NULL when there is none).
UpdatedAtOf(table, userId, levelId) ==
    LET rows == PairRows(table, userId, levelId)
    IN IF rows = <<>> THEN NULL ELSE rows[Len(rows)].updated_at

RECURSIVE SortByName(_)
SortByName(s) ==
    IF s = <<>> THEN <<>>
    ELSE LET rest == SortByName(SubSeq(s, 1, Len(s) - 1))
             x == s[Len(s)]
             before == SelectSeq(rest, LAMBDA a : NameRank(a.name) <= NameRank(x.name))
             after == SelectSeq(rest, LAMBDA a : NameRank(a.name) > NameRank(x.name))
         IN before \o <<x>> \o after

\* The join without "user_access_levels.deleted_at IS NULL": removed
\* assignments are joined too.
RECURSIVE JoinFromAnyLink(_, _, _, _)
JoinFromAnyLink(links, levels, userId, i) ==
    IF i > Len(links) THEN <<>>
    ELSE (IF links[i].user_id = userId
          THEN SelectSeq(levels, LAMBDA a : a.id = links[i].access_level_id
                                            /\ Active(a))
          ELSE <<>>) \o JoinFromAnyLink(links, levels, userId, i + 1)

RECURSIVE JoinFrom(_, _, _, _)
JoinFrom(links, levels, userId, i) ==
    IF i > Len(links) THEN <<>>
    ELSE (IF links[i].user_id = userId /\ links[i].deleted_at = NULL
          THEN SelectSeq(levels, LAMBDA a : a.id = links[i].access_level_id
                                            /\ Active(a))
          ELSE <<>>) \o JoinFrom(links, levels, userId, i + 1)

\* access_levels INNER JOIN user_access_levels, the link active, by name.
GetUserAccessLevels(userId) ==
    SortByName(JoinFrom(userAccessLevels, accessLevels, userId, 1))

\* AssignToUser, line 67: now := time.Now().
AssignToUserNow(p, userId, levelId) ==
    /\ MayCall(p)
    /\ clock' = clock + 1
    /\ Enter(p, "assign", [NoLoc EXCEPT !.op = "AssignToUser", !.id = userId,
                                        !.lvl = levelId, !.now = clock + 1])
    /\ UNCHANGED <<users, auths, accessLevels, levelSeq, starter,
                   userAccessLevels, uuidSeq, result, tx, hist, rolledBack>>

\* AssignToUser, lines 76-84: the upsert and the error it may return.
AssignToUserUpsert(p) ==
    /\ pc[p] = "assign"
    /\ LET userId == loc[p].id
           levelId == loc[p].lvl
           up == Upsert(userAccessLevels, userId, levelId, loc[p].now)
           failed == ~ForeignKeysHold(userId, levelId) \/ up.err
           after == IF failed THEN userAccessLevels ELSE up.table
           res == IF failed THEN "failed to assign access level to user"
                  ELSE "ok"
           entry == Entry("AssignToUser", loc[p].seq, userId, levelId, "", res,
                          UpdatedAtOf(after, userId, levelId))
       IN /\ userAccessLevels' = after
          /\ Return(p, entry, overlap[p] \/ InFlight(p))
          /\ Record(entry, overlap[p] \/ InFlight(p))
    /\ OverlapDone(p)
    /\ UNCHANGED <<users, auths, accessLevels, levelSeq, starter, clock,
                   uuidSeq, tx, rolledBack, calls>>

\* RemoveFromUser: one statement; gorm stamps deleted_at with its clock.
RemoveFromUser(p, userId, levelId) ==
    /\ MayCall(p)
    /\ clock' = clock + 1
    /\ calls' = calls + 1
    /\ LET n == RowsAffectedPair(userAccessLevels, userId, levelId)
           after == SoftDeletePair(userAccessLevels, userId, levelId, clock + 1)
           res == IF n = 0 THEN "user access level not found" ELSE "ok"
           entry == Entry("RemoveFromUser", calls + 1, userId, levelId, "", res,
                          UpdatedAtOf(after, userId, levelId))
       IN /\ userAccessLevels' = after
          /\ Return(p, entry, InFlight(p))
          /\ Record(entry, InFlight(p))
    /\ OverlapOthers(p)
    /\ UNCHANGED <<users, auths, accessLevels, levelSeq, starter, uuidSeq, tx,
                   rolledBack>>

\* The pairs the callers pass: the account's with each access level, and
\* one naming an account that does not exist.
AssignPairs == {<<1, 1>>, <<1, 2>>, <<3, 1>>}

\* One account and two access levels, as the repositories' Create left them.
InitAssign ==
    /\ users = << UserRow(1, "a@x.com", 1, 2) >>
    /\ auths = << [AuthRow(2, 1, 3, 4) EXCEPT
                     !.password_hash = GenerateFromPassword("password1")] >>
    /\ accessLevels = << AccessLevelRow(1, "user", 5, 6),
                         AccessLevelRow(2, "admin", 7, 8) >>
    /\ levelSeq = 2
    /\ starter = NoStarter
    /\ userAccessLevels = <<>>
    /\ clock = 8
    /\ uuidSeq = 2
    /\ pc = [p \in Procs |-> "idle"]
    /\ loc = [p \in Procs |-> NoLoc]
    /\ result = [p \in Procs |-> NoEntry]
    /\ tx = [p \in Procs |-> NoTx]
    /\ overlap = [p \in Procs |-> FALSE]
    /\ hist = <<>>
    /\ rolledBack = {}
    /\ calls = 0

NextAssign ==
    \E p \in Procs :
        \/ \E pair \in AssignPairs : AssignToUserNow(p, pair[1], pair[2])
        \/ AssignToUserUpsert(p)
        \/ \E pair \in AssignPairs : RemoveFromUser(p, pair[1], pair[2])

SpecAssign == InitAssign /\ [][NextAssign]_vars

\* ------------------------------------------------------- user repository

RowsById(table, id) == SelectSeq(table, LAMBDA row : row.id = id)

\* Where("id = ?", id).First(user) with the soft-delete scope left out.
GetByIDUnscoped(id) ==
    LET rows == RowsById(users, id)
    IN IF rows = <<>> THEN NoUser ELSE rows[1]

\* Where("id = ?", id).First(user): NoUser stands for "user not found".
GetByID(id) ==
    LET rows == SelectSeq(users, LAMBDA row : row.id = id /\ Active(row))
    IN IF rows = <<>> THEN NoUser ELSE rows[1]

\* GetByEmail on a model without gorm.DeletedAt: soft-deleted rows count.
GetByEmailUnscoped(email) ==
    LET rows == SelectSeq(users, LAMBDA row : row.email = email)
    IN IF rows = <<>> THEN NoUser
       ELSE CHOOSE r \in Range(rows) : \A o \in Range(rows) : r.id <= o.id

\* Where("email = ?", email).First(user): First orders by the primary key.
GetByEmail(email) ==
    LET rows == SelectSeq(users, LAMBDA row : row.email = email /\ Active(row))
    IN IF rows = <<>> THEN NoUser
       ELSE CHOOSE r \in Range(rows) : \A o \in Range(rows) : r.id <= o.id

RECURSIVE SortByCreatedDesc(_)
SortByCreatedDesc(s) ==
    IF s = <<>> THEN <<>>
    ELSE LET rest == SortByCreatedDesc(SubSeq(s, 1, Len(s) - 1))
             x == s[Len(s)]
             before == SelectSeq(rest, LAMBDA a : a.created_at >= x.created_at)
             after == SelectSeq(rest, LAMBDA a : a.created_at < x.created_at)
         IN before \o <<x>> \o after

\* Count over every row, soft-deleted ones included.
ListCountUnscoped == Len(users)

\* List, line 149: Model(&models.User{}).Count(&total).
ListCount == Len(SelectSeq(users, Active))

\* List, lines 155-159: Order("created_at DESC").Limit(limit).Offset(offset)
\* .Find(&users); gorm writes OFFSET only when offset is positive.
ListFind(limit, offset) ==
    LET rows == SortByCreatedDesc(SelectSeq(users, Active))
        skip == IF offset > 0 THEN offset ELSE 0
        to == IF skip + limit < Len(rows) THEN skip + limit ELSE Len(rows)
    IN SubSeq(rows, skip + 1, to)

\* Count, then Find: what List returns when nothing is written in between.
List(limit, offset) ==
    [users |-> ListFind(limit, offset), total |-> ListCount]

\* No unique index on users.email: only the service's check guards it.
EmailUniqueNotEnforced(table, email, exceptId) == TRUE

\* users.email is UNIQUE over all rows, soft-deleted ones included: may a
\* row other than exceptId take this email?

EmailUnique(table, email, exceptId) ==
    \A i \in 1..Len(table) : table[i].email = email => table[i].id = exceptId

\* A write of an email that another open transaction has inserted waits for
\* that transaction to end.
WaitsForEmail(p, email) ==
    \E q \in Others(p) : \E i \in 1..Len(tx[q].users) :
        tx[q].users[i].email = email

\* A write made without a transaction is visible at once.
AutoCommitWrite(committed, pending, row) ==
    [committed |-> Append(committed, row), pending |-> pending]

\* A write inside db.Transaction: visible to others at commit only.
TxWrite(committed, pending, row) ==
    [committed |-> committed, pending |-> Append(pending, row)]

\* Delete(&models.User{}, "id = ?", id) on a model without gorm.DeletedAt:
\* the row is taken out of the table.
HardDeleteUser(table, id, now) == SelectSeq(table, LAMBDA row : row.id # id)

\* The soft delete gorm makes of Delete(&models.User{}, "id = ?", id).
SoftDeleteUser(table, id, now) ==
    [i \in 1..Len(table) |->
       IF table[i].id = id /\ Active(table[i])
       THEN [table[i] EXCEPT !.deleted_at = now]
       ELSE table[i]]

\* Model(user).Updates(map): the columns of the active row with user's id.
UpdateUserRow(table, user, now) ==
    [i \in 1..Len(table) |->
       IF table[i].id = user.id /\ Active(table[i])
       THEN [table[i] EXCEPT !.first_name = user.first_name,
                             !.last_name = user.last_name,
                             !.email = user.email,
                             !.phone_number = user.phone_number,
                             !.updated_at = now]
       ELSE table[i]]

RowsAffectedUser(table, id) ==
    Count(table, LAMBDA row : row.id = id /\ Active(row))

\* ------------------------------------------------------------ user service

\* The password a CreateUserRequest for this email carries (eight characters
\* or more, as validateCreateUserRequest demands).
RequestPassword(email) ==
    IF email = "a@x.com" THEN "password1" ELSE "password2"

\* A user-service call may start while the bound on their number is not
\* reached.
MayCallUser(p) == Idle(p) /\ calls < MaxUserCalls

\* unicode.IsSpace, on the characters the model's strings are made of.
IsSpace(ch) == ch \in {" ", "\t"}

RECURSIVE TrimLeft(_)
TrimLeft(str) ==
    IF str # "" /\ IsSpace(SubSeq(str, 1, 1))
    THEN TrimLeft(SubSeq(str, 2, Len(str)))
    ELSE str

RECURSIVE TrimRight(_)
TrimRight(str) ==
    IF str # "" /\ IsSpace(SubSeq(str, Len(str), Len(str)))
    THEN TrimRight(SubSeq(str, 1, Len(str) - 1))
    ELSE str

\* strings.TrimSpace: leading and trailing white space removed.
TrimSpace(str) == TrimRight(TrimLeft(str))

\* strings.Contains.
Contains(str, substr) ==
    \E i \in 1..(Len(str) - Len(substr) + 1) :
        SubSeq(str, i, i + Len(substr) - 1) = substr

\* The least length of a password.
MinPasswordLen == 8

\* validateCreateUserRequest that takes any email that is not blank.
ValidateNoAtCheck(req) ==
    IF TrimSpace(req.first_name) = "" THEN "first name is required"
    ELSE IF TrimSpace(req.last_name) = "" THEN "last name is required"
    ELSE IF TrimSpace(req.email) = "" THEN "email is required"
    ELSE IF Len(req.password) < MinPasswordLen
         THEN "password must be at least 8 characters"
    ELSE "ok"

\* validateCreateUserRequest: the first check that fails names the error.
ValidateCreateUserRequest(req) ==
    IF TrimSpace(req.first_name) = "" THEN "first name is required"
    ELSE IF TrimSpace(req.last_name) = "" THEN "last name is required"
    ELSE IF TrimSpace(req.email) = "" THEN "email is required"
    ELSE IF ~Contains(req.email, "@") THEN "invalid email format"
    ELSE IF Len(req.password) < MinPasswordLen
         THEN "password must be at least 8 characters"
    ELSE "ok"

ValidationErrors ==
    {"first name is required", "last name is required", "email is required",
     "invalid email format", "password must be at least 8 characters"}

\* The CreateUserRequest for this email of a caller whose other fields are
\* first name "User", last name "Test", no phone number.
CreateRequest(email) ==
    [first_name |-> "User", last_name |-> "Test", email |-> email,
     password |-> RequestPassword(email), phone_number |-> ""]

\* The fields of the request that go into the users row.
UserFields(req) ==
    [first_name |-> req.first_name, last_name |-> req.last_name,
     email |-> req.email, phone_number |-> req.phone_number]

\* CreateUser without its duplicate-email check.
CreateUserNoCheck(p, email) ==
    /\ MayCallUser(p)
    /\ uuidSeq < MaxUuid
    /\ Enter(p, "create_user", [NoLoc EXCEPT !.op = "CreateUser", !.email = email,
                                             !.password = RequestPassword(email),
                                             !.req = UserFields(CreateRequest(email))])
    /\ UNCHANGED <<users, auths, accessLevels, levelSeq, starter,
                   userAccessLevels, clock, uuidSeq, result, tx, hist,
                   rolledBack>>

\* CreateUser, lines 28-58: the request is validated, then the duplicate
\* check on GetByEmail; the password is hashed when the credential is built.
CreateUserWith(p, req) ==
    /\ MayCallUser(p)
    /\ uuidSeq < MaxUuid
    /\ LET err == ValidateCreateUserRequest(req)
           res == IF err # "ok" THEN err
                  ELSE IF GetByEmail(req.email) # NoUser
                       THEN "user with email already exists"
                  ELSE "ok"
       IN IF res # "ok"
          THEN /\ Return(p, Entry("CreateUser", calls + 1, 0, 0, req.email,
                                  res, NULL),
                         InFlight(p))
               /\ calls' = calls + 1
               /\ OverlapOthers(p)
          ELSE /\ Enter(p, "create_user",
                        [NoLoc EXCEPT !.op = "CreateUser", !.email = req.email,
                                      !.password = req.password,
                                      !.req = UserFields(req)])
               /\ UNCHANGED result
    /\ UNCHANGED <<users, auths, accessLevels, levelSeq, starter,
                   userAccessLevels, clock, uuidSeq, tx, hist, rolledBack>>

\* CreateUser with the request CreateRequest(email).
CreateUser(p, email) == CreateUserWith(p, CreateRequest(email))

\* Create, lines 42-51: the transaction opens, the user gets its id and
\* timestamps and is inserted; a unique violation rolls back.
CreateInsertUser(p) ==
    /\ pc[p] = "create_user"
    /\ ~WaitsForEmail(p, loc[p].email)
    /\ uuidSeq' = uuidSeq + 1
    /\ clock' = clock + 2
    /\ LET user == [UserRow(uuidSeq + 1, loc[p].email, clock + 1, clock + 2)
                       EXCEPT !.first_name = loc[p].req.first_name,
                              !.last_name = loc[p].req.last_name,
                              !.phone_number = loc[p].req.phone_number]
           w == TxWrite(users, tx[p].users, user)
       IN IF EmailUnique(users, loc[p].email, 0)
          THEN /\ users' = w.committed
               /\ tx' = [tx EXCEPT ![p].users = w.pending]
               /\ pc' = [pc EXCEPT ![p] = "create_auth"]
               /\ loc' = [loc EXCEPT ![p].id = user.id]
               /\ UNCHANGED <<result, rolledBack, overlap>>
          ELSE /\ Return(p, Entry("CreateUser", loc[p].seq, user.id, 0,
                                  loc[p].email,
                                  "failed to create user: failed to insert user",
                                  NULL),
                         overlap[p] \/ InFlight(p))
               /\ OverlapDone(p)
               /\ rolledBack' = rolledBack \cup {user.id}
               /\ UNCHANGED <<users, tx>>
    /\ UNCHANGED <<auths, accessLevels, levelSeq, starter, userAccessLevels,
                   hist, calls>>

\* Create, lines 53-62: the credential gets its id, the user's id and its
\* timestamps and is inserted.
CreateInsertAuth(p) ==
    /\ pc[p] = "create_auth"
    /\ uuidSeq' = uuidSeq + 1
    /\ clock' = clock + 2
    /\ LET auth == [AuthRow(uuidSeq + 1, loc[p].id, clock + 1, clock + 2)
                       EXCEPT !.password_hash =
                                 GenerateFromPassword(loc[p].password)]
           w == TxWrite(auths, tx[p].auths, auth)
       IN /\ auths' = w.committed
          /\ tx' = [tx EXCEPT ![p].auths = w.pending]
    /\ pc' = [pc EXCEPT ![p] = "create_commit"]
    /\ UNCHANGED <<users, accessLevels, levelSeq, starter, userAccessLevels,
                   loc, result, overlap, hist, rolledBack, calls>>

\* Create, lines 60-62: the credential's insert fails (the connection, the
\* context); the transaction rolls back what it wrote.
CreateInsertAuthFails(p) ==
    /\ pc[p] = "create_auth"
    /\ uuidSeq' = uuidSeq + 1
    /\ clock' = clock + 2
    /\ tx' = [tx EXCEPT ![p] = NoTx]
    /\ rolledBack' = rolledBack \cup {loc[p].id}
    /\ Return(p, Entry("CreateUser", loc[p].seq, loc[p].id, 0, loc[p].email,
                       "failed to create user: failed to insert authentication",
                       NULL),
              overlap[p] \/ InFlight(p))
    /\ OverlapDone(p)
    /\ UNCHANGED <<users, auths, accessLevels, levelSeq, starter,
                   userAccessLevels, hist, calls>>

\* Create, line 64 and Transaction's commit: both rows become visible.
CreateCommit(p) ==
    /\ pc[p] = "create_commit"
    /\ users' = users \o tx[p].users
    /\ auths' = auths \o tx[p].auths
    /\ tx' = [tx EXCEPT ![p] = NoTx]
    /\ Return(p, Entry("CreateUser", loc[p].seq, loc[p].id, 0, loc[p].email,
                       "ok", clock),
              overlap[p] \/ InFlight(p))
    /\ OverlapDone(p)
    /\ UNCHANGED <<accessLevels, levelSeq, starter, userAccessLevels, clock,
                   uuidSeq, hist, rolledBack, calls>>

\* UpdateUser, lines 80-91: the user is loaded and the names the request
\* gives are set on it; a field of the request is "" when it is not given.
UpdateUserWith(p, id, req) ==
    /\ MayCallUser(p)
    /\ IF GetByID(id) = NoUser
       THEN /\ Return(p, Entry("UpdateUser", calls + 1, id, 0, req.email,
                               "user not found", NULL),
                      InFlight(p))
            /\ calls' = calls + 1
            /\ OverlapOthers(p)
       ELSE /\ Enter(p, IF req.email = "" THEN "update_write" ELSE "update_check",
                     [NoLoc EXCEPT
                        !.op = "UpdateUser", !.id = id, !.email = req.email,
                        !.req = req,
                        !.user = [GetByID(id) EXCEPT
                                    !.first_name = IF req.first_name # ""
                                                   THEN req.first_name ELSE @,
                                    !.last_name = IF req.last_name # ""
                                                  THEN req.last_name ELSE @]])
            /\ UNCHANGED result
    /\ UNCHANGED <<users, auths, accessLevels, levelSeq, starter,
                   userAccessLevels, clock, uuidSeq, tx, hist, rolledBack>>

\* UpdateUser with a request that gives the email only ("" for none).
UpdateUser(p, id, email) == UpdateUserWith(p, id, [NoReq EXCEPT !.email = email])

\* UpdateUser without its check of the new email: the write is attempted.
UpdateUserNoCheck(p) ==
    /\ pc[p] = "update_check"
    /\ pc' = [pc EXCEPT ![p] = "update_write"]
    /\ loc' = [loc EXCEPT ![p].user.email = loc[p].email]
    /\ UNCHANGED <<users, auths, accessLevels, levelSeq, starter,
                   userAccessLevels, clock, uuidSeq, result, overlap, tx,
                   hist, rolledBack, calls>>

\* UpdateUser, lines 92-99: is the new email taken by another user?
UpdateUserCheck(p) ==
    /\ pc[p] = "update_check"
    /\ LET existingUser == GetByEmail(loc[p].email)
       IN IF existingUser # NoUser /\ existingUser.id # loc[p].id
          THEN /\ Return(p, Entry("UpdateUser", loc[p].seq, loc[p].id, 0,
                                  loc[p].email, "email is already taken", NULL),
                         overlap[p] \/ InFlight(p))
               /\ OverlapDone(p)
          ELSE /\ pc' = [pc EXCEPT ![p] = "update_write"]
               /\ loc' = [loc EXCEPT ![p].user.email = loc[p].email]
               /\ UNCHANGED <<result, overlap>>
    /\ UNCHANGED <<users, auths, accessLevels, levelSeq, starter,
                   userAccessLevels, clock, uuidSeq, tx, hist, rolledBack,
                   calls>>

\* UpdateUser, lines 100-108, and the repository's Update.
UpdateUserWrite(p) ==
    /\ pc[p] = "update_write"
    /\ LET user == [loc[p].user EXCEPT
                       !.phone_number = IF loc[p].req.phone_number # ""
                                        THEN loc[p].req.phone_number ELSE @]
           n == RowsAffectedUser(users, user.id)
           dup == n > 0 /\ ~EmailUnique(users, user.email, user.id)
           res == IF dup THEN "failed to update user: failed to update user"
                  ELSE IF n = 0 THEN "failed to update user: user not found"
                  ELSE "ok"
           after == IF res = "ok" THEN UpdateUserRow(users, user, clock + 1)
                    ELSE users
       IN /\ n > 0 => ~WaitsForEmail(p, user.email)
          /\ users' = after
          /\ Return(p, Entry("UpdateUser", loc[p].seq, user.id, 0, user.email,
                             res, IF res = "ok" THEN clock + 1 ELSE NULL),
                    overlap[p] \/ InFlight(p))
    /\ clock' = clock + 1
    /\ OverlapDone(p)
    /\ UNCHANGED <<auths, accessLevels, levelSeq, starter, userAccessLevels,
                   uuidSeq, tx, hist, rolledBack, calls>>

\* DeleteUser and the repository's Delete.
DeleteUser(p, id) ==
    /\ MayCallUser(p)
    /\ clock' = clock + 1
    /\ calls' = calls + 1
    /\ LET n == RowsAffectedUser(users, id)
           res == IF n = 0 THEN "user not found" ELSE "ok"
       IN /\ users' = SoftDeleteUser(users, id, clock + 1)
          /\ Return(p, Entry("DeleteUser", calls + 1, id, 0, "", res, NULL),
                    InFlight(p))
    /\ OverlapOthers(p)
    /\ UNCHANGED <<auths, accessLevels, levelSeq, starter, userAccessLevels,
                   uuidSeq, tx, hist, rolledBack>>

Emails == {"a@x.com", "b@x.com"}

\* uuid.Nil: the identifier of no account.
NoSuchId == 0

\* The identifiers callers pass: those of the stored accounts, and one of
\* no account.
UserIds == {users[i].id : i \in 1..Len(users)} \cup {NoSuchId}

InitUsers ==
    /\ users = <<>>
    /\ auths = <<>>
    /\ accessLevels = <<>>
    /\ levelSeq = 0
    /\ starter = NoStarter
    /\ userAccessLevels = <<>>
    /\ clock = 0
    /\ uuidSeq = 0
    /\ pc = [p \in Procs |-> "idle"]
    /\ loc = [p \in Procs |-> NoLoc]
    /\ result = [p \in Procs |-> NoEntry]
    /\ tx = [p \in Procs |-> NoTx]
    /\ overlap = [p \in Procs |-> FALSE]
    /\ hist = <<>>
    /\ rolledBack = {}
    /\ calls = 0

NextUsers ==
    \E p \in Procs :
        \/ \E email \in Emails : CreateUser(p, email)
        \/ CreateInsertUser(p)
        \/ CreateInsertAuth(p)
        \/ CreateInsertAuthFails(p)
        \/ CreateCommit(p)
        \/ \E id \in UserIds, email \in Emails \cup {""} : UpdateUser(p, id, email)
        \/ UpdateUserCheck(p)
        \/ UpdateUserWrite(p)
        \/ \E id \in UserIds : DeleteUser(p, id)

SpecUsers == InitUsers /\ [][NextUsers]_vars

\* ------------------------------------------- service calls, store failures

MaxServiceCalls == 2

\* A service call may start while the bound on their number is not reached.
MayCallService(p) == Idle(p) /\ calls < MaxServiceCalls

NoAuth == AuthRow(0, 0, NULL, NULL)

NoAccessLevel == AccessLevelRow(0, "", NULL, NULL)

\* Where("user_id = ?", userID).First(auth): NoAuth stands for
\* "authentication not found".
GetUserAuthentication(userId) ==
    LET rows == SelectSeq(auths, LAMBDA a : a.user_id = userId /\ Active(a))
    IN IF rows = <<>> THEN NoAuth
       ELSE CHOOSE r \in Range(rows) : \A o \in Range(rows) : r.id <= o.id

\* The access-level repository's GetByID: NoAccessLevel stands for "access
\* level not found".
AccessLevelGetByID(id) ==
    LET rows == SelectSeq(accessLevels, LAMBDA a : a.id = id /\ Active(a))
    IN IF rows = <<>> THEN NoAccessLevel ELSE rows[1]

\* The response of a call that returned an error: nil.
NoBody == [id |-> 0, email |-> "", access_levels |-> <<>>]

\* toUserResponse: the user's fields and its access levels; an error of
\* GetUserAccessLevels (levelsErr) leaves the access levels out.
ToUserResponse(user, levelsErr) ==
    LET levels == GetUserAccessLevels(user.id)
    IN [id |-> user.id, email |-> user.email,
        access_levels |->
            IF levelsErr THEN <<>>
            ELSE [k \in 1..Len(levels) |->
                    [id |-> levels[k].id, name |-> levels[k].name]]]

\* What is kept of a completed service call: what Entry keeps, the response,
\* and for the record which check refused (cause), whether a store call of
\* it failed (fault), and the access-level ids given and assigned.
ServiceEntry(op, seq, id, lvl, email, res, body, cause, fault, ids, done) ==
    [op |-> op, seq |-> seq, id |-> id, lvl |-> lvl, email |-> email,
     res |-> res, upd |-> NULL, conc |-> FALSE, body |-> body,
     cause |-> cause, fault |-> fault, ids |-> ids, done |-> done]

\* AuthenticateUser that passes the repository's error on when the email is
\* not known.
AuthenticateCheckLeaky(email, password, fault) ==
    LET user == IF fault = "GetByEmail" THEN NoUser ELSE GetByEmail(email)
        auth == IF fault = "GetUserAuthentication" THEN NoAuth
                ELSE GetUserAuthentication(user.id)
    IN IF user = NoUser
       THEN [res |-> "user not found", cause |-> "email",
             body |-> NoBody, fault |-> fault = "GetByEmail"]
       ELSE IF auth = NoAuth
       THEN [res |-> "invalid email or password", cause |-> "credential",
             body |-> NoBody, fault |-> fault = "GetUserAuthentication"]
       ELSE IF ~CompareHashAndPassword(auth.password_hash, password)
       THEN [res |-> "invalid email or password", cause |-> "password",
             body |-> NoBody, fault |-> FALSE]
       ELSE [res |-> "ok", cause |-> "none",
             body |-> ToUserResponse(user, fault = "GetUserAccessLevels"),
             fault |-> fault = "GetUserAccessLevels"]

\* AuthenticateUser, lines 146-166: the three checks and the response.
\* fault names the store call that fails with a persistence error, if any.
AuthenticateCheck(email, password, fault) ==
    LET user == IF fault = "GetByEmail" THEN NoUser ELSE GetByEmail(email)
        auth == IF fault = "GetUserAuthentication" THEN NoAuth
                ELSE GetUserAuthentication(user.id)
    IN IF user = NoUser
       THEN [res |-> "invalid email or password", cause |-> "email",
             body |-> NoBody, fault |-> fault = "GetByEmail"]
       ELSE IF auth = NoAuth
       THEN [res |-> "invalid email or password", cause |-> "credential",
             body |-> NoBody, fault |-> fault = "GetUserAuthentication"]
       ELSE IF ~CompareHashAndPassword(auth.password_hash, password)
       THEN [res |-> "invalid email or password", cause |-> "password",
             body |-> NoBody, fault |-> FALSE]
       ELSE [res |-> "ok", cause |-> "none",
             body |-> ToUserResponse(user, fault = "GetUserAccessLevels"),
             fault |-> fault = "GetUserAccessLevels"]

AuthenticateUser(p, email, password, fault) ==
    /\ MayCallService(p)
    /\ calls' = calls + 1
    /\ LET r == AuthenticateCheck(email, password, fault)
       IN Return(p, ServiceEntry("AuthenticateUser", calls + 1, r.body.id, 0,
                                 email, r.res, r.body, r.cause, r.fault,
                                 <<>>, <<>>),
                 InFlight(p))
    /\ OverlapOthers(p)
    /\ UNCHANGED <<users, auths, accessLevels, levelSeq, starter,
                   userAccessLevels, clock, uuidSeq, tx, hist, rolledBack>>

\* GetUser: the repository's GetByID, then toUserResponse.
GetUser(p, id, fault) ==
    /\ MayCallService(p)
    /\ calls' = calls + 1
    /\ LET user == GetByID(id)
           res == IF fault = "GetByID" THEN "failed to get user"
                  ELSE IF user = NoUser THEN "user not found"
                  ELSE "ok"
           levelsErr == res = "ok" /\ fault = "GetUserAccessLevels"
           body == IF res = "ok" THEN ToUserResponse(user, levelsErr)
                   ELSE NoBody
       IN Return(p, ServiceEntry("GetUser", calls + 1, id, 0, "", res, body,
                                 "none", fault = "GetByID" \/ levelsErr,
                                 <<>>, <<>>),
                 InFlight(p))
    /\ OverlapOthers(p)
    /\ UNCHANGED <<users, auths, accessLevels, levelSeq, starter,
                   userAccessLevels, clock, uuidSeq, tx, hist, rolledBack>>

\* AssignAccessLevels without "Verify user exists".
AssignAccessLevelsNoUserCheck(p, userId, ids, fault) ==
    /\ MayCallService(p)
    /\ ids # <<>>
    /\ Enter(p, "assign_levels",
             [NoLoc EXCEPT !.op = "AssignAccessLevels", !.id = userId,
                           !.ids = ids, !.before = userAccessLevels])
    /\ UNCHANGED <<users, auths, accessLevels, levelSeq, starter,
                   userAccessLevels, clock, uuidSeq, result, tx, hist,
                   rolledBack>>

\* AssignAccessLevels, lines 170-175: the user is looked up; with no access
\* level asked for, the loop does not run and nil is returned.
AssignAccessLevels(p, userId, ids, fault) ==
    /\ MayCallService(p)
    /\ LET res == IF fault = "GetByID" THEN "failed to get user"
                  ELSE IF GetByID(userId) = NoUser THEN "user not found"
                  ELSE "ok"
       IN IF res # "ok" \/ ids = <<>>
          THEN /\ Return(p, ServiceEntry("AssignAccessLevels", calls + 1,
                                         userId, 0, "", res, NoBody, "none",
                                         fault = "GetByID", ids, <<>>),
                         InFlight(p))
               /\ calls' = calls + 1
               /\ OverlapOthers(p)
          ELSE /\ Enter(p, "assign_levels",
                        [NoLoc EXCEPT !.op = "AssignAccessLevels",
                                      !.id = userId, !.ids = ids,
                                      !.before = userAccessLevels])
               /\ UNCHANGED result
    /\ UNCHANGED <<users, auths, accessLevels, levelSeq, starter,
                   userAccessLevels, clock, uuidSeq, tx, hist, rolledBack>>

\* The loop that goes on to the next id when an access level is not found.
AssignAccessLevelsStepSkipMissing(p, fault) ==
    /\ pc[p] = "assign_levels"
    /\ LET userId == loc[p].id
           ids == loc[p].ids
           i == Len(loc[p].done) + 1
           levelId == ids[i]
           missing == AccessLevelGetByID(levelId) = NoAccessLevel
           up == Upsert(userAccessLevels, userId, levelId, clock + 1)
           failed == /\ ~missing
                     /\ \/ fault = "AssignToUser"
                        \/ ~ForeignKeysHold(userId, levelId)
                        \/ up.err
           done == IF failed THEN loc[p].done ELSE Append(loc[p].done, levelId)
           res == IF failed THEN "failed to assign access level" ELSE "ok"
       IN /\ userAccessLevels' = IF missing \/ failed THEN userAccessLevels
                                 ELSE up.table
          /\ IF failed \/ i = Len(ids)
             THEN /\ Return(p, ServiceEntry("AssignAccessLevels", loc[p].seq,
                                            userId, IF failed THEN levelId ELSE 0,
                                            "", res, NoBody, "none",
                                            fault = "AssignToUser" /\ ~missing,
                                            ids, done),
                            overlap[p] \/ InFlight(p))
                  /\ OverlapDone(p)
             ELSE /\ loc' = [loc EXCEPT ![p].done = done]
                  /\ UNCHANGED <<pc, result, overlap>>
    /\ clock' = clock + 1
    /\ UNCHANGED <<users, auths, accessLevels, levelSeq, starter, uuidSeq, tx,
                   hist, rolledBack, calls>>

\* AssignAccessLevels, lines 177-190: one turn of the loop, for the next id
\* of the request: the access level is looked up and assigned; an error
\* returns at once, and so does the end of the list.
AssignAccessLevelsStep(p, fault) ==
    /\ pc[p] = "assign_levels"
    /\ LET userId == loc[p].id
           ids == loc[p].ids
           i == Len(loc[p].done) + 1
           levelId == ids[i]
           missing == AccessLevelGetByID(levelId) = NoAccessLevel
           up == Upsert(userAccessLevels, userId, levelId, clock + 1)
           failed == /\ ~missing
                     /\ \/ fault = "AssignToUser"
                        \/ ~ForeignKeysHold(userId, levelId)
                        \/ up.err
           done == IF missing \/ failed THEN loc[p].done
                   ELSE Append(loc[p].done, levelId)
           res == IF missing THEN "access level not found"
                  ELSE IF failed THEN "failed to assign access level"
                  ELSE "ok"
       IN /\ userAccessLevels' = IF res = "ok" THEN up.table
                                 ELSE userAccessLevels
          /\ IF res # "ok" \/ i = Len(ids)
             THEN /\ Return(p, ServiceEntry("AssignAccessLevels", loc[p].seq,
                                            userId,
                                            IF res = "ok" THEN 0 ELSE levelId,
                                            "", res, NoBody, "none",
                                            fault = "AssignToUser" /\ ~missing,
                                            ids, done),
                            overlap[p] \/ InFlight(p))
                  /\ OverlapDone(p)
             ELSE /\ loc' = [loc EXCEPT ![p].done = done]
                  /\ UNCHANGED <<pc, result, overlap>>
    /\ clock' = clock + 1
    /\ UNCHANGED <<users, auths, accessLevels, levelSeq, starter, uuidSeq, tx,
                   hist, rolledBack, calls>>

\* The emails, passwords, account ids and access-level id lists of the
\* requests: c@x.com is no account's email, 9 is no access level's id.
ServiceEmails == {"a@x.com", "b@x.com", "c@x.com"}

Passwords == {"password1", "password2"}

ServiceUserIds == {1, 3, NoSuchId}

IdLists == {<<>>, <<1>>, <<2, 1>>, <<1, 9, 2>>, <<9, 1>>}

\* What CreateUser (twice), AccessLevelRepository.Create (twice),
\* AssignToUser(3, 1), RemoveFromUser(3, 1) and DeleteUser(3) leave: account
\* 1 active, account 3 soft-deleted with a removed assignment.
InitService ==
    /\ users = << UserRow(1, "a@x.com", 1, 2),
                  [UserRow(3, "b@x.com", 5, 6) EXCEPT !.deleted_at = 15] >>
    /\ auths = << [AuthRow(2, 1, 3, 4) EXCEPT
                     !.password_hash = GenerateFromPassword("password1")],
                  [AuthRow(4, 3, 7, 8) EXCEPT
                     !.password_hash = GenerateFromPassword("password2")] >>
    /\ accessLevels = << AccessLevelRow(1, "user", 9, 10),
                         AccessLevelRow(2, "admin", 11, 12) >>
    /\ levelSeq = 2
    /\ starter = NoStarter
    /\ userAccessLevels = << [UserAccessLevelRow(3, 1, 13) EXCEPT
                                !.deleted_at = 14] >>
    /\ clock = 15
    /\ uuidSeq = 4
    /\ pc = [p \in Procs |-> "idle"]
    /\ loc = [p \in Procs |-> NoLoc]
    /\ result = [p \in Procs |-> NoEntry]
    /\ tx = [p \in Procs |-> NoTx]
    /\ overlap = [p \in Procs |-> FALSE]
    /\ hist = <<>>
    /\ rolledBack = {}
    /\ calls = 0

NextService ==
    \E p \in Procs :
        \/ \E email \in ServiceEmails, password \in Passwords,
              fault \in {"none", "GetByEmail", "GetUserAuthentication",
                         "GetUserAccessLevels"} :
              AuthenticateUser(p, email, password, fault)
        \/ \E id \in ServiceUserIds,
              fault \in {"none", "GetByID", "GetUserAccessLevels"} :
              GetUser(p, id, fault)
        \/ \E id \in ServiceUserIds, ids \in IdLists,
              fault \in {"none", "GetByID"} :
              AssignAccessLevels(p, id, ids, fault)
        \/ \E fault \in {"none", "AssignToUser"} :
              AssignAccessLevelsStep(p, fault)

SpecService == InitService /\ [][NextService]_vars

\* ------------------------------------------------------------- ListUsers

\* Go's int is 32 or 64 bits wide and its arithmetic wraps around; the model
\* takes a width whose products TLC's integers hold.
IntBits == 16

MaxInt == 2 ^ (IntBits - 1) - 1

MinInt == 0 - 2 ^ (IntBits - 1)

\* The int that holds x after the arithmetic wrapped around.
WrapInt(x) == ((x - MinInt) % (2 ^ IntBits)) + MinInt

MaxPageSize == 100

DefaultPageSize == 10

MaxListCalls == 1

MaxAccounts == 5

\* ListUsers, lines 118-120.
NormalizePage(page) == IF page < 1 THEN 1 ELSE page

\* ListUsers, lines 121-123.
NormalizePageSize(pageSize) ==
    IF pageSize < 1 \/ pageSize > MaxPageSize THEN DefaultPageSize
    ELSE pageSize

\* ListUsers, line 125: offset := (page - 1) * pageSize, in int.
PageOffset(page, pageSize) == WrapInt(WrapInt(page - 1) * pageSize)

\* What is kept of a completed ListUsers call: the request's page and
\* pageSize, the limit and offset the repository was called with, and the
\* response.
ListEntry(seq, page, pageSize, limit, offset, body) ==
    [op |-> "ListUsers", seq |-> seq, id |-> 0, lvl |-> 0, email |-> "",
     res |-> "ok", upd |-> NULL, conc |-> FALSE, page |-> page,
     pageSize |-> pageSize, limit |-> limit, offset |-> offset, body |-> body]

MayCallList(p) == Idle(p) /\ calls < MaxListCalls

\* ListUsers, lines 118-126, and List, line 149: page and pageSize are
\* normalised, the offset is computed and the repository counts the users.
ListUsers(p, page, pageSize) ==
    /\ MayCallList(p)
    /\ Enter(p, "list_find",
             [NoLoc EXCEPT !.op = "ListUsers",
                           !.page = page, !.pageSize = pageSize,
                           !.limit = NormalizePageSize(pageSize),
                           !.offset = PageOffset(NormalizePage(page),
                                                 NormalizePageSize(pageSize)),
                           !.total = ListCount])
    /\ UNCHANGED <<users, auths, accessLevels, levelSeq, starter,
                   userAccessLevels, clock, uuidSeq, result, tx, hist,
                   rolledBack>>

\* List, lines 155-164, and ListUsers, lines 131-141: the page is read and
\* the response built.
ListUsersFind(p) ==
    /\ pc[p] = "list_find"
    /\ Return(p, ListEntry(loc[p].seq, loc[p].page, loc[p].pageSize,
                           loc[p].limit, loc[p].offset,
                           [users |-> ListFind(loc[p].limit, loc[p].offset),
                            total |-> loc[p].total,
                            page |-> NormalizePage(loc[p].page),
                            page_size |-> loc[p].limit]),
              overlap[p] \/ InFlight(p))
    /\ OverlapDone(p)
    /\ UNCHANGED <<users, auths, accessLevels, levelSeq, starter,
                   userAccessLevels, clock, uuidSeq, tx, hist, rolledBack,
                   calls>>

AccountEmails == <<"a@x.com", "b@x.com", "c@x.com", "d@x.com", "e@x.com",
                   "f@x.com", "g@x.com">>

\* The page numbers and page sizes of the requests.
Pages == {0, 1, 2, 3, 6, MaxInt}

PageSizes == {0, 1, 3, MaxPageSize, MaxPageSize + 1}

\* Up to MaxAccounts accounts as CreateUser left them, one after another
\* (account i has id 2i-1, its credential id 2i); the second may have been
\* deleted since.
InitList ==
    /\ \E n \in 0..MaxAccounts : \E deleted \in {{}, {2}} :
          /\ users = [i \in 1..n |->
                        [UserRow(2 * i - 1, AccountEmails[i], 4 * i - 3, 4 * i - 2)
                           EXCEPT !.deleted_at = IF i \in deleted THEN 4 * n + 1
                                                 ELSE NULL]]
          /\ auths = [i \in 1..n |->
                        [AuthRow(2 * i, 2 * i - 1, 4 * i - 1, 4 * i) EXCEPT
                           !.password_hash = GenerateFromPassword("password1")]]
          /\ clock = 4 * n + 1
          /\ uuidSeq = 2 * n
    /\ accessLevels = <<>>
    /\ levelSeq = 0
    /\ starter = NoStarter
    /\ userAccessLevels = <<>>
    /\ pc = [p \in Procs |-> "idle"]
    /\ loc = [p \in Procs |-> NoLoc]
    /\ result = [p \in Procs |-> NoEntry]
    /\ tx = [p \in Procs |-> NoTx]
    /\ overlap = [p \in Procs |-> FALSE]
    /\ hist = <<>>
    /\ rolledBack = {}
    /\ calls = 0

NextList ==
    \E p \in Procs :
        \/ \E page \in Pages, pageSize \in PageSizes : ListUsers(p, page, pageSize)
        \/ ListUsersFind(p)
        \/ \E id \in UserIds : DeleteUser(p, id)

SpecList == InitList /\ [][NextList]_vars

\* ------------------------------------------------------------ UpdateUser

MaxUpdateCalls == 1

\* The UpdateUserRequests of the callers: each field not given, given, for
\* the first name given as white space and for the email given without "@".
UpdateRequests ==
    [first_name : {"", " ", "Jane"}, last_name : {"", "Roe"},
     email : {"", "a@x.com", "c@x.com", "nobody"},
     phone_number : {"", "+15550100"}]

\* Two accounts with their credentials, the first holding access level 1.
InitUpdate ==
    /\ users = << UserRow(1, "a@x.com", 1, 2), UserRow(3, "b@x.com", 5, 6) >>
    /\ auths = << [AuthRow(2, 1, 3, 4) EXCEPT
                     !.password_hash = GenerateFromPassword("password1")],
                  [AuthRow(4, 3, 7, 8) EXCEPT
                     !.password_hash = GenerateFromPassword("password2")] >>
    /\ accessLevels = << AccessLevelRow(1, "user", 9, 10) >>
    /\ levelSeq = 1
    /\ starter = NoStarter
    /\ userAccessLevels = << UserAccessLevelRow(1, 1, 11) >>
    /\ clock = 11
    /\ uuidSeq = 4
    /\ pc = [p \in Procs |-> "idle"]
    /\ loc = [p \in Procs |-> NoLoc]
    /\ result = [p \in Procs |-> NoEntry]
    /\ tx = [p \in Procs |-> NoTx]
    /\ overlap = [p \in Procs |-> FALSE]
    /\ hist = <<>>
    /\ rolledBack = {}
    /\ calls = 0

NextUpdate ==
    \E p \in Procs :
        \/ \E id \in UserIds, req \in UpdateRequests :
              calls < MaxUpdateCalls /\ UpdateUserWith(p, id, req)
        \/ UpdateUserCheck(p)
        \/ UpdateUserWrite(p)

SpecUpdate == InitUpdate /\ [][NextUpdate]_vars

\* ------------------------------------------------------------ CreateUser

MaxCreateCalls == 2

\* A request that passes validation.
ValidRequest ==
    [first_name |-> "Jane", last_name |-> "Roe", email |-> "a@x.com",
     password |-> "12345678", phone_number |-> ""]

\* The requests of the callers: two that pass validation, one for each way
\* of failing it (a name empty or of white space only, the email empty, of
\* white space only or without "@", the password one character short), and
\* one that fails it in three ways.
CreateRequests ==
    {ValidRequest,
     [ValidRequest EXCEPT !.email = "b@x.com", !.phone_number = "+15550100"],
     [ValidRequest EXCEPT !.first_name = ""],
     [ValidRequest EXCEPT !.first_name = " \t"],
     [ValidRequest EXCEPT !.last_name = " "],
     [ValidRequest EXCEPT !.email = ""],
     [ValidRequest EXCEPT !.email = " "],
     [ValidRequest EXCEPT !.email = "nobody"],
     [ValidRequest EXCEPT !.password = "1234567"],
     [ValidRequest EXCEPT !.last_name = "", !.email = "nobody",
                          !.password = "1234567"]}

NextCreate ==
    \E p \in Procs :
        \/ \E req \in CreateRequests :
              calls < MaxCreateCalls /\ CreateUserWith(p, req)
        \/ CreateInsertUser(p)
        \/ CreateInsertAuth(p)
        \/ CreateInsertAuthFails(p)
        \/ CreateCommit(p)

SpecCreate == InitUsers /\ [][NextCreate]_vars

\* ----------------------------------------------------- CreateAccessLevel

MaxLevelCalls == 3

\* The access-level repository's GetByName: the first row of that name that
\* is not soft-deleted; NoAccessLevel stands for "access level not found".
AccessLevelGetByName(name) ==
    LET rows == SelectSeq(accessLevels, LAMBDA a : a.name = name /\ Active(a))
    IN IF rows = <<>> THEN NoAccessLevel ELSE rows[1]

\* No unique index on access_levels.name: only the service's check guards it.
NameUniqueNotEnforced(table, name) == TRUE

\* access_levels.name is UNIQUE over all rows, soft-deleted ones included.
NameUnique(table, name) ==
    \A i \in 1..Len(table) : table[i].name # name

\* What is kept of a completed CreateAccessLevel.
LevelEntry(seq, id, name, res) ==
    [Entry("CreateAccessLevel", seq, 0, id, "", res, NULL) EXCEPT !.email = name]

\* CreateAccessLevel, lines 21-25: the check on GetByName, whose error is
\* dropped.
CreateAccessLevel(p, name) ==
    /\ Idle(p)
    /\ calls < MaxLevelCalls
    /\ IF AccessLevelGetByName(name) # NoAccessLevel
       THEN /\ Return(p, LevelEntry(calls + 1, 0, name,
                                    "access level already exists"),
                      InFlight(p))
            /\ calls' = calls + 1
            /\ OverlapOthers(p)
       ELSE /\ Enter(p, "create_level",
                     [NoLoc EXCEPT !.op = "CreateAccessLevel", !.name = name])
            /\ UNCHANGED result
    /\ UNCHANGED <<users, auths, accessLevels, levelSeq, starter,
                   userAccessLevels, clock, uuidSeq, tx, hist, rolledBack>>

\* CreateAccessLevel, lines 27-48, and the repository's Create: time.Now()
\* is read twice, the sequence gives the id whether or not the row goes in,
\* and the unique index on name refuses a second row of one name.
CreateAccessLevelInsert(p) ==
    /\ pc[p] = "create_level"
    /\ clock' = clock + 2
    /\ levelSeq' = levelSeq + 1
    /\ LET name == loc[p].name
           row == AccessLevelRow(levelSeq + 1, name, clock + 1, clock + 2)
       IN IF NameUnique(accessLevels, name)
          THEN /\ accessLevels' = Append(accessLevels, row)
               /\ Return(p, LevelEntry(loc[p].seq, row.id, name, "ok"),
                         overlap[p] \/ InFlight(p))
          ELSE /\ accessLevels' = accessLevels
               /\ Return(p, LevelEntry(loc[p].seq, 0, name,
                                       "failed to create access level"),
                         overlap[p] \/ InFlight(p))
    /\ OverlapDone(p)
    /\ UNCHANGED <<users, auths, userAccessLevels, uuidSeq, tx, hist,
                   rolledBack, calls, starter>>

\* The names callers ask for.
LevelNames == {"user", "admin", "auditor"}

\* The tables after the migration, access level "user" created.
InitLevels ==
    /\ users = <<>>
    /\ auths = <<>>
    /\ accessLevels = << AccessLevelRow(1, "user", 1, 2) >>
    /\ levelSeq = 1
    /\ starter = NoStarter
    /\ userAccessLevels = <<>>
    /\ clock = 2
    /\ uuidSeq = 0
    /\ pc = [p \in Procs |-> "idle"]
    /\ loc = [p \in Procs |-> NoLoc]
    /\ result = [p \in Procs |-> NoEntry]
    /\ tx = [p \in Procs |-> NoTx]
    /\ overlap = [p \in Procs |-> FALSE]
    /\ hist = <<>>
    /\ rolledBack = {}
    /\ calls = 0

NextLevels ==
    \E p \in Procs :
        \/ \E name \in LevelNames : CreateAccessLevel(p, name)
        \/ CreateAccessLevelInsert(p)

SpecLevels == InitLevels /\ [][NextLevels]_vars

\* ---------------------------------------------------------- HTTP handlers

\* The status a handler answers with, from the operation it called and the
\* error that returned ("ok" for nil): each handler has one status for nil
\* and one for every error.
HandlerStatus(op, res) ==
    CASE op = "CreateUser" -> IF res = "ok" THEN 201 ELSE 400
      [] op = "GetUser" -> IF res = "ok" THEN 200 ELSE 404
      [] op = "UpdateUser" -> IF res = "ok" THEN 200 ELSE 400
      [] op = "DeleteUser" -> IF res = "ok" THEN 200 ELSE 404
      [] op = "ListUsers" -> IF res = "ok" THEN 200 ELSE 500
      [] op = "AuthenticateUser" -> IF res = "ok" THEN 200 ELSE 401
      [] op = "AssignAccessLevels" -> IF res = "ok" THEN 200 ELSE 400
      [] op = "GetUserAccessLevels" -> IF res = "ok" THEN 200 ELSE 404
      [] op = "CreateAccessLevel" -> IF res = "ok" THEN 201 ELSE 400

\* --------------------------------------- DeleteUser and AssignAccessLevels

\* Requests that assign access levels and requests that delete accounts,
\* on the tables of InitService.
NextDelete ==
    \E p \in Procs :
        \/ \E id \in ServiceUserIds, ids \in IdLists :
              AssignAccessLevels(p, id, ids, "none")
        \/ AssignAccessLevelsStep(p, "none")
        \/ \E id \in ServiceUserIds : DeleteUser(p, id)

SpecDelete == InitService /\ [][NextDelete]_vars

\* ------------------------------------------ CreateUser, then AuthenticateUser

\* What one CreateUser for a@x.com and one CreateAccessLevel leave: the
\* account was created with "password1", as RequestPassword gives for its
\* email.
InitAuth ==
    /\ users = << UserRow(1, "a@x.com", 1, 2) >>
    /\ auths = << [AuthRow(2, 1, 3, 4) EXCEPT
                     !.password_hash = GenerateFromPassword("password1")] >>
    /\ accessLevels = << AccessLevelRow(1, "user", 5, 6) >>
    /\ levelSeq = 1
    /\ starter = NoStarter
    /\ userAccessLevels = <<>>
    /\ clock = 6
    /\ uuidSeq = 2
    /\ pc = [p \in Procs |-> "idle"]
    /\ loc = [p \in Procs |-> NoLoc]
    /\ result = [p \in Procs |-> NoEntry]
    /\ tx = [p \in Procs |-> NoTx]
    /\ overlap = [p \in Procs |-> FALSE]
    /\ hist = <<>>
    /\ rolledBack = {}
    /\ calls = 0

\* Requests that create accounts, delete them and log in.
NextAuth ==
    \E p \in Procs :
        \/ \E email \in ServiceEmails : CreateUser(p, email)
        \/ CreateInsertUser(p)
        \/ CreateInsertAuth(p)
        \/ CreateInsertAuthFails(p)
        \/ CreateCommit(p)
        \/ \E id \in ServiceUserIds : DeleteUser(p, id)
        \/ \E email \in ServiceEmails, password \in Passwords :
              AuthenticateUser(p, email, password, "none")

SpecAuth == InitAuth /\ [][NextAuth]_vars

\* ------------------------------------------------------- RealStarter.Start

\* The most connections that serve a request at one time.
MaxConns == 2

\* make(chan error, 1): the capacity of errChan.
ChanCap == 1

ErrServerClosed == "http: Server closed"

TimeoutError == "server start timeout after 10 seconds"

\* The addresses Start is called with: one that binds, one whose port
\* another server holds, one that is no address.
Addrs == {"127.0.0.1:0", "127.0.0.1:18899", "invalid-address-format"}

\* net.Listen("tcp", addr): "ok", or the error.
Listen(addr) ==
    IF addr = "127.0.0.1:0" THEN "ok"
    ELSE IF addr = "127.0.0.1:18899"
         THEN "listen tcp 127.0.0.1:18899: bind: address already in use"
    ELSE "listen tcp: address invalid-address-format: missing port in address"

\* case err := <-errChan with return nil in place of return err.
ReceivedDropped(err) == "nil"

\* case err := <-errChan: return err.
Received(err) == err

\* defer cancel(): a timer that has not fired is stopped.
Cancel(timer) == IF timer = "armed" THEN "off" ELSE timer

\* Every variable but starter.
storeVars ==
    <<users, auths, accessLevels, levelSeq, userAccessLevels, clock, uuidSeq,
      pc, loc, result, tx, overlap, hist, rolledBack, calls>>

\* Start, lines 34-48: the server and the channel are made, the goroutine is
\* spawned and the timer of ten seconds is set.
Start(addr) ==
    /\ starter.main = "idle"
    /\ starter' = [starter EXCEPT !.main = "select", !.addr = addr,
                                  !.serve = "spawned", !.timer = "armed"]
    /\ UNCHANGED storeVars

\* The select, lines 51-53, when Start comes to it: a case that is ready is
\* taken, any of them when both are; with none ready Start waits.
Select ==
    /\ starter.main = "select"
    /\ \/ /\ starter.errChan # <<>>
          /\ starter' = [starter EXCEPT
                           !.main = "returned",
                           !.ret = Received(Head(starter.errChan)),
                           !.errChan = Tail(starter.errChan),
                           !.timer = Cancel(starter.timer)]
       \/ /\ starter.timer = "fired"
          /\ starter' = [starter EXCEPT !.main = "shutdown"]
       \/ /\ starter.errChan = <<>> /\ starter.timer # "fired"
          /\ starter' = [starter EXCEPT !.main = "parked"]
    /\ UNCHANGED storeVars

\* ctx.Done(): the ten seconds are over.  They are longer than Start takes
\* from WithTimeout to its select, so Start is waiting there, and takes the
\* case at line 54.
TimerFires ==
    /\ starter.timer = "armed"
    /\ starter.main = "parked"
    /\ starter' = [starter EXCEPT !.timer = "fired", !.main = "shutdown"]
    /\ UNCHANGED storeVars

\* Lines 56-58 and http.Server.Shutdown: inShutdown is set and the listener
\* Serve has registered is closed; with no connection serving a request
\* Shutdown returns and Start returns the timeout error, else it waits.
Shutdown ==
    /\ starter.main = "shutdown"
    /\ LET closed == IF starter.serve = "accept" THEN "closed"
                     ELSE starter.listener
       IN IF starter.conns = 0
          THEN starter' = [starter EXCEPT !.inShutdown = TRUE,
                                          !.listener = closed,
                                          !.main = "returned",
                                          !.ret = TimeoutError]
          ELSE starter' = [starter EXCEPT !.inShutdown = TRUE,
                                          !.listener = closed,
                                          !.shutdownTimer = "armed",
                                          !.main = "shutdown_wait"]
    /\ UNCHANGED storeVars

\* Shutdown's wait ends, line 58, and Start returns the timeout error at
\* line 59: the last connection has finished its request, or the five
\* seconds of shutdownCtx are over.
ShutdownReturns ==
    /\ starter.main = "shutdown_wait"
    /\ \/ starter.conns = 0
       \/ starter.shutdownTimer = "fired"
    /\ starter' = [starter EXCEPT !.main = "returned", !.ret = TimeoutError,
                                  !.shutdownTimer = "off"]
    /\ UNCHANGED storeVars

\* shutdownCtx.Done(): the five seconds are over.
ShutdownTimerFires ==
    /\ starter.shutdownTimer = "armed"
    /\ starter' = [starter EXCEPT !.shutdownTimer = "fired"]
    /\ UNCHANGED storeVars

\* The goroutine, line 43: http.Server.ListenAndServe up to Serve.  A server
\* that is shutting down returns ErrServerClosed, net.Listen's error is
\* returned, and else the listener is open.
ListenAndServe ==
    /\ starter.serve = "spawned"
    /\ starter' =
          IF starter.inShutdown
          THEN [starter EXCEPT !.serve = "send", !.serveErr = ErrServerClosed]
          ELSE IF Listen(starter.addr) # "ok"
          THEN [starter EXCEPT !.serve = "send",
                               !.serveErr = Listen(starter.addr)]
          ELSE [starter EXCEPT !.serve = "serve", !.listener = "open"]
    /\ UNCHANGED storeVars

\* http.Server.Serve registers the listener: a server that is shutting down
\* closes it and returns ErrServerClosed.
Serve ==
    /\ starter.serve = "serve"
    /\ starter' =
          IF starter.inShutdown
          THEN [starter EXCEPT !.serve = "send", !.serveErr = ErrServerClosed,
                               !.listener = "closed"]
          ELSE [starter EXCEPT !.serve = "accept"]
    /\ UNCHANGED storeVars

\* Serve's loop: a connection is accepted and serves a request.
Accept ==
    /\ starter.serve = "accept"
    /\ starter.listener = "open"
    /\ starter.conns < MaxConns
    /\ starter' = [starter EXCEPT !.conns = starter.conns + 1]
    /\ UNCHANGED storeVars

\* A connection's request is answered.
ConnDone ==
    /\ starter.conns > 0
    /\ starter' = [starter EXCEPT !.conns = starter.conns - 1]
    /\ UNCHANGED storeVars

\* Accept on the listener Shutdown has closed: Serve returns
\* ErrServerClosed.
AcceptClosed ==
    /\ starter.serve = "accept"
    /\ starter.listener = "closed"
    /\ starter' = [starter EXCEPT !.serve = "send",
                                  !.serveErr = ErrServerClosed]
    /\ UNCHANGED storeVars

\* Accept fails with an error that is not temporary: Serve closes the
\* listener and returns the error.
AcceptFails ==
    /\ starter.serve = "accept"
    /\ starter.listener = "open"
    /\ starter' = [starter EXCEPT !.serve = "send",
                                  !.serveErr = "accept tcp: accept failed",
                                  !.listener = "closed"]
    /\ UNCHANGED storeVars

\* errChan <- err on a channel without buffer: it goes on only when Start
\* waits in its select.
CanSendUnbuffered == starter.main = "parked"

\* errChan <- err may go on: Start waits in its select, or the buffer has
\* room.
CanSend ==
    \/ starter.main = "parked"
    \/ Len(starter.errChan) < ChanCap

\* The goroutine, line 43: errChan <- err.  A Start that waits in its select
\* takes the error at once and returns it, line 53; else the error goes into
\* the buffer.
Send ==
    /\ starter.serve = "send"
    /\ CanSend
    /\ starter' =
          IF starter.main = "parked"
          THEN [starter EXCEPT !.serve = "done", !.main = "returned",
                               !.ret = Received(starter.serveErr),
                               !.timer = Cancel(starter.timer),
                               !.sentFirst = starter.timer # "fired"]
          ELSE [starter EXCEPT !.serve = "done",
                               !.errChan = Append(starter.errChan,
                                                  starter.serveErr),
                               !.sentFirst = starter.timer # "fired"]
    /\ UNCHANGED storeVars

InitStart ==
    /\ InitUsers
    /\ starter = NoStarter

NextStart ==
    \/ \E addr \in Addrs : Start(addr)
    \/ Select
    \/ TimerFires
    \/ Shutdown
    \/ ShutdownReturns
    \/ ShutdownTimerFires
    \/ ListenAndServe
    \/ Serve
    \/ Accept
    \/ ConnDone
    \/ AcceptClosed
    \/ AcceptFails
    \/ Send

SpecStart == InitStart /\ [][NextStart]_vars

\* The Go scheduler runs every goroutine that can run, timers fire and
\* requests are answered; that Accept fails is not certain.
FairStart ==
    /\ SpecStart
    /\ WF_vars(Select)
    /\ WF_vars(TimerFires)
    /\ WF_vars(Shutdown)
    /\ WF_vars(ShutdownReturns)
    /\ WF_vars(ShutdownTimerFires)
    /\ WF_vars(ListenAndServe)
    /\ WF_vars(Serve)
    /\ WF_vars(AcceptClosed)
    /\ WF_vars(Send)

\* ------------------------------------------------------------- claims

AssignOk(e, userId, levelId) ==
    e.op = "AssignToUser" /\ e.id = userId /\ e.lvl = levelId /\ e.res = "ok"

OneActiveRow(table, userId, levelId) ==
    LET rows == PairRows(table, userId, levelId)
    IN Len(rows) = 1 /\ rows[1].deleted_at = NULL

\* C1: whatever AssignToUser and RemoveFromUser calls have run, in whatever
\* interleaving, user_access_levels holds at most one row per
\* (user_id, access_level_id), soft-deleted rows counted.
C1_AtMostOneRowPerPair ==
    \A i, j \in 1..Len(userAccessLevels) :
        SamePair(userAccessLevels[i], userAccessLevels[j].user_id,
                 userAccessLevels[j].access_level_id) => i = j

\* An assignment was removed and assigned again while another pair's row
\* lies soft-deleted.
C1_Witness ==
    /\ \E i \in 1..Len(userAccessLevels) :
          /\ Active(userAccessLevels[i])
          /\ userAccessLevels[i].updated_at > userAccessLevels[i].created_at
    /\ \E i \in 1..Len(userAccessLevels) : ~Active(userAccessLevels[i])

\* C2: when AssignToUser has been called twice in a row for the pair of an
\* account and an access level, both calls returned nil, the pair has exactly
\* one row, its deleted_at is NULL, and GetUserAccessLevels lists the access
\* level once.
C2_AssignTwiceIdempotent ==
    \A k \in 1..(Len(hist) - 1) :
        LET a == hist[k]
            b == hist[k + 1]
        IN (/\ a.op = "AssignToUser" /\ b.op = "AssignToUser"
            /\ a.id = b.id /\ a.lvl = b.lvl
            /\ ForeignKeysHold(a.id, a.lvl))
           => /\ a.res = "ok" /\ b.res = "ok"
              /\ k + 1 = Len(hist) =>
                    /\ OneActiveRow(userAccessLevels, a.id, a.lvl)
                    /\ Len(SelectSeq(GetUserAccessLevels(a.id),
                                     LAMBDA lv : lv.id = a.lvl)) = 1

\* The two calls came after a removal of the pair, and did not run
\* alongside another call.
C2_Witness ==
    /\ Len(hist) >= 3
    /\ hist[Len(hist) - 2].op = "RemoveFromUser"
    /\ hist[Len(hist) - 2].res = "ok"
    /\ AssignOk(hist[Len(hist) - 1], hist[Len(hist) - 2].id, hist[Len(hist) - 2].lvl)
    /\ AssignOk(hist[Len(hist)], hist[Len(hist) - 2].id, hist[Len(hist) - 2].lvl)

\* C3: when two AssignToUser calls for one pair ran concurrently, in any
\* interleaving, neither returned an error and afterwards the pair has
\* exactly one row, active.
C3_ConcurrentAssign ==
    \A p \in Procs : \A q \in Others(p) :
        (/\ Idle(p) /\ Idle(q)
         /\ result[p].op = "AssignToUser" /\ result[q].op = "AssignToUser"
         /\ result[p].conc /\ result[q].conc
         /\ result[p].id = result[q].id /\ result[p].lvl = result[q].lvl
         /\ ForeignKeysHold(result[p].id, result[p].lvl))
        => /\ result[p].res = "ok" /\ result[q].res = "ok"
           /\ OneActiveRow(userAccessLevels, result[p].id, result[p].lvl)

\* Both calls have returned; the one that read the clock first wrote last,
\* onto the row the other had inserted.
C3_Witness ==
    \E p \in Procs : \E q \in Others(p) :
        /\ Idle(p) /\ Idle(q)
        /\ AssignOk(result[p], 1, 1) /\ AssignOk(result[q], 1, 1)
        /\ result[p].conc /\ result[q].conc
        /\ result[p].upd < result[q].upd
        /\ UpdatedAtOf(userAccessLevels, 1, 1) = result[p].upd
        /\ \E i \in 1..Len(userAccessLevels) :
              /\ SamePair(userAccessLevels[i], 1, 1)
              /\ userAccessLevels[i].created_at = result[q].upd

\* C4: after AssignToUser, RemoveFromUser, AssignToUser in a row for one
\* pair, the pair has exactly one row, active, and its updated_at is greater
\* than it was after the first AssignToUser.
C4_ReviveAfterRemove ==
    LET n == Len(hist)
    IN (/\ n >= 3
        /\ hist[n - 2].op = "AssignToUser"
        /\ hist[n - 1].op = "RemoveFromUser"
        /\ hist[n].op = "AssignToUser"
        /\ hist[n - 1].id = hist[n].id /\ hist[n - 1].lvl = hist[n].lvl
        /\ hist[n - 2].id = hist[n].id /\ hist[n - 2].lvl = hist[n].lvl
        /\ ForeignKeysHold(hist[n].id, hist[n].lvl))
       => /\ hist[n - 2].res = "ok" /\ hist[n - 1].res = "ok" /\ hist[n].res = "ok"
          /\ OneActiveRow(userAccessLevels, hist[n].id, hist[n].lvl)
          /\ UpdatedAtOf(userAccessLevels, hist[n].id, hist[n].lvl) = hist[n].upd
          /\ hist[n].upd > hist[n - 2].upd

\* The three calls have run for the pair (1, 2) and the row is the one the
\* first call inserted.
C4_Witness ==
    /\ Len(hist) >= 3
    /\ AssignOk(hist[Len(hist) - 2], 1, 2)
    /\ hist[Len(hist) - 1].op = "RemoveFromUser"
    /\ hist[Len(hist) - 1].id = 1 /\ hist[Len(hist) - 1].lvl = 2
    /\ hist[Len(hist) - 1].res = "ok"
    /\ AssignOk(hist[Len(hist)], 1, 2)
    /\ \E i \in 1..Len(userAccessLevels) :
          /\ SamePair(userAccessLevels[i], 1, 2)
          /\ userAccessLevels[i].created_at = hist[Len(hist) - 2].upd

UserRowsOf(id) == RowsById(users, id)

AuthRowsOf(userId) == SelectSeq(auths, LAMBDA a : a.user_id = userId)

\* C5: the repository's Create is atomic.  A call whose credential insert
\* failed returned an error, and no user row and no credential row of it is
\* visible then or later; rows of an open transaction are not visible; a
\* call that returned nil left both its rows visible, and a user row is
\* visible exactly when its credential row is.
C5_AtomicCreate ==
    /\ \A id \in rolledBack : UserRowsOf(id) = <<>> /\ AuthRowsOf(id) = <<>>
    /\ \A p \in Procs :
          /\ result[p].res = "failed to create user: failed to insert authentication"
                => /\ result[p].id \in rolledBack
                   /\ UserRowsOf(result[p].id) = <<>>
                   /\ AuthRowsOf(result[p].id) = <<>>
          /\ (result[p].op = "CreateUser" /\ result[p].id \in rolledBack)
                => result[p].res # "ok"
          /\ (result[p].op = "CreateUser" /\ result[p].res = "ok")
                => /\ Len(UserRowsOf(result[p].id)) = 1
                   /\ Len(AuthRowsOf(result[p].id)) = 1
          /\ \A i \in 1..Len(tx[p].users) :
                /\ UserRowsOf(tx[p].users[i].id) = <<>>
                /\ AuthRowsOf(tx[p].users[i].id) = <<>>
    /\ \A i \in 1..Len(users) : AuthRowsOf(users[i].id) # <<>>
    /\ \A j \in 1..Len(auths) : UserRowsOf(auths[j].user_id) # <<>>

\* A Create was rolled back on its credential insert while an account
\* created by another call is stored.
C5_Witness ==
    \E p \in Procs :
        /\ result[p].res = "failed to create user: failed to insert authentication"
        /\ result[p].id \in rolledBack
        /\ Len(users) >= 1

\* C6: every users row, soft-deleted or not, has exactly one
\* user_authentications row whose user_id is its id, and every
\* user_authentications row's user_id is the id of a users row.
C6_OneCredentialPerAccount ==
    /\ \A i \in 1..Len(users) : Len(AuthRowsOf(users[i].id)) = 1
    /\ \A j \in 1..Len(auths) : Len(UserRowsOf(auths[j].user_id)) >= 1

\* A soft-deleted account and an active one are stored, each with its
\* credential.
C6_Witness ==
    /\ \E i \in 1..Len(users) : ~Active(users[i])
    /\ \E i \in 1..Len(users) : Active(users[i])
    /\ Len(auths) = 2

DeletedIds == {users[i].id : i \in {k \in 1..Len(users) : ~Active(users[k])}}

C7_Invisible ==
    \A id \in DeletedIds :
        /\ GetByID(id) = NoUser
        /\ \A email \in Emails : GetByEmail(email).id # id
        /\ \A limit \in 1..3, offset \in 0..2 :
              LET page == List(limit, offset)
              IN /\ \A k \in 1..Len(page.users) : page.users[k].id # id
                 /\ page.total =
                       Cardinality({i \in 1..Len(users) : users[i].deleted_at = NULL})

C7_LaterCalls ==
    /\ \A i \in 1..Len(users) :
          ~Active(users[i]) => Len(users') >= i /\ users'[i] = users[i]
    /\ \A p \in Procs :
          /\ (/\ calls' = calls + 1
              /\ result'[p].seq = calls + 1
              /\ result'[p].op = "DeleteUser")
             => /\ result'[p].res = "ok" => result'[p].id \in DeletedIds'
                /\ result'[p].id \in DeletedIds
                      => /\ result'[p].res = "user not found"
                         /\ users' = users
          /\ (/\ pc[p] = "update_write" /\ pc'[p] = "idle"
              /\ loc[p].user.id \in DeletedIds)
             => /\ result'[p].res = "failed to update user: user not found"
                /\ users' = users

\* C7: once Delete(id) has succeeded the account's row stays stored with
\* deleted_at set, and in every later state GetByID, GetByEmail and List
\* (page and total) leave it out, and Update and a further Delete of the id
\* return "user not found" and change nothing.
C7_SoftDeleteInvisible == []C7_Invisible /\ [][C7_LaterCalls]_vars

\* A second Delete of a soft-deleted account has returned "user not found";
\* the account's row is still stored.
C7_Witness ==
    \E p \in Procs :
        /\ Idle(p)
        /\ result[p].op = "DeleteUser"
        /\ result[p].res = "user not found"
        /\ result[p].id \in DeletedIds
        /\ Len(UserRowsOf(result[p].id)) = 1

\* C8: when an account with email E was created and then deleted (E is held
\* by soft-deleted rows only), creating an account with E succeeds: the
\* insert of its users row goes through.
C8_EmailReuseAfterDelete ==
    [][\A p \in Procs :
          (/\ pc[p] = "create_user" /\ pc'[p] # "create_user"
           /\ \E i \in 1..Len(users) : users[i].email = loc[p].email
           /\ \A i \in 1..Len(users) :
                 users[i].email = loc[p].email => ~Active(users[i]))
          => pc'[p] = "create_auth"]_vars

\* C9: no two non-deleted accounts have the same email, whatever CreateUser
\* and UpdateUser calls have run and however their steps interleaved.
C9_UniqueActiveEmail ==
    \A i, j \in 1..Len(users) :
        (i # j /\ Active(users[i]) /\ Active(users[j]))
        => users[i].email # users[j].email

\* Two CreateUser calls for one email both passed the duplicate check; one
\* committed and the other's insert was refused.
C9_Witness ==
    \E p \in Procs :
        /\ result[p].res = "failed to create user: failed to insert user"
        /\ result[p].conc
        /\ GetByEmail(result[p].email) # NoUser
        /\ GetByEmail(result[p].email).created_at < clock - 1

EmailHeld(email) ==
    \E i \in 1..Len(users) : users[i].email = email /\ Active(users[i])

\* p has just started call number calls of CreateUser, for this email.
CreateUserStarted(p, email) ==
    \/ /\ pc[p] = "idle"
       /\ result[p].op = "CreateUser"
       /\ result[p].seq = calls
       /\ result[p].email = email
    \/ /\ pc[p] # "idle"
       /\ loc[p].op = "CreateUser"
       /\ loc[p].seq = calls
       /\ loc[p].email = email

\* C10: a CreateUser call for an email that a non-deleted account holds
\* returns "user with email ... already exists" and writes nothing: users
\* and user_authentications are as before, and no transaction is opened.
C10_DuplicateEmailRejected ==
    [][\A p \in Procs : \A email \in Emails :
          (/\ calls' = calls + 1
           /\ pc[p] = "idle"
           /\ CreateUserStarted(p, email)'
           /\ EmailHeld(email))
          => /\ pc'[p] = "idle"
             /\ result'[p].res = "user with email already exists"
             /\ users' = users
             /\ auths' = auths
             /\ tx' = tx
             /\ uuidSeq' = uuidSeq]_vars

\* A CreateUser call was refused for the email of a stored, active account.
C10_Witness ==
    \E p \in Procs :
        /\ Idle(p)
        /\ result[p].res = "user with email already exists"
        /\ EmailHeld(result[p].email)

\* C11: an UpdateUser call that ran alone and asked for an email held by
\* another non-deleted account returns "email ... is already taken" and
\* leaves every table as it was; one that asked for the account's own email
\* returns nil.
C11_UpdateEmailConflict ==
    [][\A p \in Procs :
          (/\ pc[p] \in {"update_check", "update_write"}
           /\ pc'[p] = "idle"
           /\ ~overlap[p] /\ ~InFlight(p)
           /\ loc[p].email # "")
          => /\ (\E i \in 1..Len(users) :
                    /\ Active(users[i])
                    /\ users[i].email = loc[p].email
                    /\ users[i].id # loc[p].id)
                => /\ result'[p].res = "email is already taken"
                   /\ users' = users
                   /\ auths' = auths
                   /\ userAccessLevels' = userAccessLevels
             /\ GetByID(loc[p].id).email = loc[p].email
                => /\ result'[p].res = "ok"
                   /\ \A i \in 1..Len(users) :
                         users[i].id # loc[p].id => users'[i] = users[i]]_vars

\* Two non-deleted accounts hold different emails and an update of one to
\* the other's email was refused.
C11_Witness ==
    \E p \in Procs :
        /\ Idle(p)
        /\ result[p].op = "UpdateUser"
        /\ result[p].res = "email is already taken"
        /\ ~result[p].conc
        /\ GetByID(result[p].id) # NoUser
        /\ GetByID(result[p].id).email # result[p].email
        /\ GetByEmail(result[p].email) # NoUser
        /\ GetByEmail(result[p].email).id # result[p].id

\* p's RemoveFromUser call is this step.
RemoveStep(p) ==
    /\ calls' = calls + 1
    /\ result'[p].seq = calls + 1
    /\ result'[p].op = "RemoveFromUser"

AllSoftDeleted(rows) == \A i \in 1..Len(rows) : ~Active(rows[i])

\* C13 as stated: RemoveFromUser returns not found only if the pair has no
\* row at all; when a row exists, active or soft-deleted, the call does not
\* return not found, and afterwards the row is soft-deleted.
C13_NotFoundOnlyIfNeverCreated ==
    [][\A p \in Procs :
          RemoveStep(p) =>
             LET before == PairRows(userAccessLevels, result'[p].id, result'[p].lvl)
                 after == PairRows(userAccessLevels', result'[p].id, result'[p].lvl)
             IN /\ result'[p].res = "user access level not found"
                      => before = <<>>
                /\ before # <<>>
                      => /\ result'[p].res # "user access level not found"
                         /\ AllSoftDeleted(after)]_vars

\* C13 amended: RemoveFromUser returns not found exactly when the pair has
\* no active row (none was created, or it is already soft-deleted) and then
\* changes nothing; otherwise it returns nil, the pair's row is soft-deleted
\* afterwards and no other row is changed.
C13_NotFoundIffNoActiveRow ==
    [][\A p \in Procs :
          RemoveStep(p) =>
             LET userId == result'[p].id
                 levelId == result'[p].lvl
                 before == PairRows(userAccessLevels, userId, levelId)
                 after == PairRows(userAccessLevels', userId, levelId)
             IN /\ result'[p].res \in {"ok", "user access level not found"}
                /\ result'[p].res = "user access level not found"
                      <=> AllSoftDeleted(before)
                /\ result'[p].res = "user access level not found"
                      => userAccessLevels' = userAccessLevels
                /\ result'[p].res = "ok"
                      => /\ Len(after) = 1
                         /\ ~Active(after[1])
                         /\ after[1].deleted_at = clock'
                /\ Len(userAccessLevels') = Len(userAccessLevels)
                /\ \A i \in 1..Len(userAccessLevels) :
                      ~SamePair(userAccessLevels[i], userId, levelId)
                         => userAccessLevels'[i] = userAccessLevels[i]]_vars

\* A second RemoveFromUser of a pair has returned not found while the
\* pair's row is stored, soft-deleted.
C13_Witness ==
    \E p \in Procs :
        /\ Idle(p)
        /\ result[p].op = "RemoveFromUser"
        /\ result[p].res = "user access level not found"
        /\ PairRows(userAccessLevels, result[p].id, result[p].lvl) # <<>>
        /\ AllSoftDeleted(PairRows(userAccessLevels, result[p].id, result[p].lvl))
        /\ Len(hist) >= 2
        /\ hist[Len(hist)] = [result[p] EXCEPT !.conc = FALSE]
        /\ hist[Len(hist) - 1].op = "RemoveFromUser"
        /\ hist[Len(hist) - 1].res = "ok"
        /\ hist[Len(hist) - 1].id = result[p].id
        /\ hist[Len(hist) - 1].lvl = result[p].lvl

\* The access levels the account's active assignment rows name.
ActiveLevelsOf(userId) ==
    {accessLevels[k] : k \in {n \in 1..Len(accessLevels) :
        \E i \in 1..Len(userAccessLevels) :
            /\ userAccessLevels[i].user_id = userId
            /\ userAccessLevels[i].access_level_id = accessLevels[n].id
            /\ userAccessLevels[i].deleted_at = NULL}}

\* C14: whatever AssignToUser and RemoveFromUser calls have run,
\* GetUserAccessLevels(account) is exactly the access levels whose
\* assignment row for the account has deleted_at NULL, each once, in
\* ascending order of name; it is empty when there is none.
C14_ActiveLevelsByName ==
    \A userId \in {pair[1] : pair \in AssignPairs} :
        LET got == GetUserAccessLevels(userId)
        IN /\ Range(got) = ActiveLevelsOf(userId)
           /\ Len(got) = Cardinality(ActiveLevelsOf(userId))
           /\ \A k \in 1..(Len(got) - 1) :
                 NameRank(got[k].name) < NameRank(got[k + 1].name)
           /\ ActiveLevelsOf(userId) = {} => got = <<>>

\* The account holds both access levels, "user" assigned before "admin",
\* one of them after a removal, and "admin" is listed first.
C14_Witness ==
    /\ Len(GetUserAccessLevels(1)) = 2
    /\ GetUserAccessLevels(1)[1].name = "admin"
    /\ Len(userAccessLevels) = 2
    /\ userAccessLevels[1].access_level_id = 1
    /\ \E i \in 1..2 :
          userAccessLevels[i].updated_at > userAccessLevels[i].created_at

\* What the caller of a service call sees of it: the error and the response.
Visible(r) == [res |-> r.res, body |-> r.body]

AuthFailed(r) == r.op = "AuthenticateUser" /\ r.cause # "none"

\* C12: every AuthenticateUser call that was refused, whether the email was
\* not known, the credential could not be had or the password did not match,
\* returned the error "invalid email or password" and no response, so that
\* any two refused calls look the same to their callers.
C12_UniformAuthFailure ==
    \A p \in Procs :
        /\ (result[p].op = "AuthenticateUser" /\ result[p].res # "ok")
              => /\ AuthFailed(result[p])
                 /\ result[p].res = "invalid email or password"
                 /\ result[p].body = NoBody
        /\ \A q \in Procs :
              (AuthFailed(result[p]) /\ AuthFailed(result[q]))
                 => Visible(result[p]) = Visible(result[q])

\* One call was refused for its email and another for its password.
C12_Witness ==
    \E p \in Procs : \E q \in Others(p) :
        /\ AuthFailed(result[p]) /\ result[p].cause = "email"
        /\ AuthFailed(result[q]) /\ result[q].cause = "password"
        /\ result[q].email = "a@x.com"

\* The position of the first id of the list that is no access level's
\* (one past the end when there is none).
FirstMissing(ids) ==
    LET bad == {k \in 1..Len(ids) : AccessLevelGetByID(ids[k]) = NoAccessLevel}
    IN IF bad = {} THEN Len(ids) + 1
       ELSE CHOOSE k \in bad : \A o \in bad : k <= o

\* p's AssignAccessLevels call returns in this step.
AssignLevelsReturns(p) ==
    /\ pc[p] = "assign_levels"
    /\ pc'[p] = "idle"

\* C15: AssignAccessLevels takes the ids in the order of the list and stops
\* at the first that fails.  When the i-th id is the first that is no access
\* level's (and no store call failed before), it returns "access level ...
\* not found" naming that id, it has assigned exactly the ids before
\* position i, in order, and their rows are active; when no other call ran
\* meanwhile, the rows of the ids after position i are as they were when the
\* call began.
C15_StopsAtFirstFailure ==
    [][\A p \in Procs :
          AssignLevelsReturns(p) =>
             LET r == result'[p]
                 ids == loc[p].ids
                 i == FirstMissing(ids)
                 last == Len(r.done) + 1
             IN /\ r.done = SubSeq(ids, 1, Len(r.done))
                /\ r.res # "ok" => r.lvl = ids[last]
                /\ (i <= Len(ids) /\ ~r.fault)
                      => /\ r.res = "access level not found"
                         /\ r.lvl = ids[i]
                         /\ r.done = SubSeq(ids, 1, i - 1)
                         /\ \A k \in 1..(i - 1) :
                               OneActiveRow(userAccessLevels', r.id, ids[k])
                /\ (r.res # "ok" /\ ~overlap[p] /\ ~InFlight(p))
                      => \A k \in (last + 1)..Len(ids) :
                            ids[k] \notin Range(r.done)
                               => PairRows(userAccessLevels', r.id, ids[k])
                                     = PairRows(loc[p].before, r.id, ids[k])]_vars

\* AssignAccessLevels(1, [1, 9, 2]) has returned not found for 9: the
\* account holds access level 1 and has no row for access level 2.
C15_Witness ==
    \E p \in Procs :
        /\ Idle(p)
        /\ result[p].op = "AssignAccessLevels"
        /\ result[p].res = "access level not found"
        /\ result[p].ids = <<1, 9, 2>>
        /\ result[p].lvl = 9
        /\ result[p].done = <<1>>
        /\ OneActiveRow(userAccessLevels, 1, 1)
        /\ PairRows(userAccessLevels, 1, 2) = <<>>

\* p has just started call number calls of AssignAccessLevels for userId.
AssignLevelsStarted(p, userId) ==
    \/ /\ pc[p] = "idle"
       /\ result[p].op = "AssignAccessLevels"
       /\ result[p].seq = calls
       /\ result[p].id = userId
    \/ /\ pc[p] # "idle"
       /\ loc[p].op = "AssignAccessLevels"
       /\ loc[p].seq = calls
       /\ loc[p].id = userId

\* C16: an AssignAccessLevels call for an id that no account has, or that a
\* soft-deleted account has, returns without entering its loop, with "user
\* not found" unless the lookup itself failed, and user_access_levels is as
\* before: no row inserted, none revived.
C16_NoAssignForMissingUser ==
    [][\A p \in Procs : \A userId \in ServiceUserIds :
          (/\ calls' = calls + 1
           /\ pc[p] = "idle"
           /\ AssignLevelsStarted(p, userId)'
           /\ GetByID(userId) = NoUser)
          => /\ pc'[p] = "idle"
             /\ result'[p].res # "ok"
             /\ ~result'[p].fault => result'[p].res = "user not found"
             /\ userAccessLevels' = userAccessLevels]_vars

\* AssignAccessLevels for the soft-deleted account, naming the access level
\* of its removed assignment, was refused; the row is still soft-deleted.
C16_Witness ==
    \E p \in Procs :
        /\ Idle(p)
        /\ result[p].op = "AssignAccessLevels"
        /\ result[p].res = "user not found"
        /\ result[p].id = 3
        /\ result[p].ids = <<1>>
        /\ Len(PairRows(userAccessLevels, 3, 1)) = 1
        /\ AllSoftDeleted(PairRows(userAccessLevels, 3, 1))

\* C17: a service call during which a store call failed with a persistence
\* error returned an error, never success.
C17_NoSwallowedStoreFailure ==
    \A p \in Procs :
        (result[p].op \in {"AuthenticateUser", "GetUser", "AssignAccessLevels"}
         /\ result[p].fault)
        => result[p].res # "ok"

\* C18: for every page and pageSize, ListUsers answers with page = max(page,
\* 1) and page_size = pageSize when it lies in 1..100 and 10 otherwise, and
\* has called the repository's List with limit = that page size and offset =
\* (page - 1) * page size.
C18_NormalizedPaging ==
    \A p \in Procs :
        result[p].op = "ListUsers" =>
            LET r == result[p]
                page == IF r.page > 1 THEN r.page ELSE 1
                pageSize == IF r.pageSize \in 1..100 THEN r.pageSize ELSE 10
            IN /\ r.body.page = page
               /\ r.body.page_size = pageSize
               /\ r.limit = pageSize
               /\ r.offset = (page - 1) * pageSize

Min(a, b) == IF a < b THEN a ELSE b

\* The non-deleted accounts created after this one.
NewerThan(row) ==
    {i \in 1..Len(users) : Active(users[i]) /\ users[i].created_at > row.created_at}

Blank(str) == TrimSpace(str) = ""

\* The value a column has after an update that gave the request's value.
Overwritten(stored, given) == IF Blank(given) THEN stored ELSE given

\* C20: an UpdateUser call that ran alone and succeeded changed, of the
\* target's row, only first_name, last_name, email, phone_number and
\* updated_at, each of the four to the request's value when that is not
\* blank and not at all when it is blank, and changed no other users row, no
\* user_authentications row and no user_access_levels row.
C20_UpdateFrame ==
    [][\A p \in Procs :
          (/\ pc[p] = "update_write" /\ pc'[p] = "idle"
           /\ ~overlap[p] /\ ~InFlight(p))
          => /\ auths' = auths
             /\ userAccessLevels' = userAccessLevels
             /\ accessLevels' = accessLevels
             /\ Len(users') = Len(users)
             /\ \A i \in 1..Len(users) :
                   IF users[i].id = loc[p].id /\ result'[p].res = "ok"
                   THEN LET req == loc[p].req
                        IN /\ users'[i].id = users[i].id
                           /\ users'[i].created_at = users[i].created_at
                           /\ users'[i].deleted_at = users[i].deleted_at
                           /\ users'[i].first_name
                                 = Overwritten(users[i].first_name, req.first_name)
                           /\ users'[i].last_name
                                 = Overwritten(users[i].last_name, req.last_name)
                           /\ users'[i].email
                                 = Overwritten(users[i].email, req.email)
                           /\ users'[i].phone_number
                                 = Overwritten(users[i].phone_number,
                                               req.phone_number)
                   ELSE users'[i] = users[i]]_vars

\* The request misses what validation asks for: a name or the email is blank,
\* the email has no "@", or the password is shorter than eight characters.
Invalid(req) ==
    \/ Blank(req.first_name)
    \/ Blank(req.last_name)
    \/ Blank(req.email)
    \/ \A i \in 1..Len(req.email) : SubSeq(req.email, i, i) # "@"
    \/ Len(req.password) < 8

\* C21: CreateUser with a blank first name, a blank last name, a blank email,
\* an email without "@" or a password shorter than 8 characters returns a
\* validation error at once, before any store call, and leaves every table,
\* open transaction and the id counter as they were; a request with none of
\* these faults is never answered with a validation error.
C21_ValidationBeforeStore ==
    [][\A p \in Procs, req \in CreateRequests :
          CreateUserWith(p, req)
          => IF Invalid(req)
             THEN /\ pc'[p] = "idle"
                  /\ result'[p].op = "CreateUser"
                  /\ result'[p].seq = calls'
                  /\ result'[p].res \in ValidationErrors
                  /\ UNCHANGED <<users, auths, accessLevels, levelSeq,
                                 starter, userAccessLevels, tx, uuidSeq,
                                 clock>>
             ELSE \/ pc'[p] = "create_user"
                  \/ result'[p].res \notin ValidationErrors]_vars

\* One call was refused for its email without "@" and one for its short
\* password, and the tables are still empty.
C21_Witness ==
    /\ \E p \in Procs : result[p].res = "invalid email format"
    /\ \E p \in Procs : result[p].res = "password must be at least 8 characters"
    /\ users = <<>> /\ auths = <<>>

\* C22: in every state the service operations reach, every stored account,
\* soft-deleted ones included, has a first name and a last name that are not
\* blank and an email that contains "@".
C22_StoredAccountsValid ==
    \A i \in 1..Len(users) :
        /\ ~Blank(users[i].first_name)
        /\ ~Blank(users[i].last_name)
        /\ \E k \in 1..Len(users[i].email) : SubSeq(users[i].email, k, k) = "@"

ActiveLevelNamed(name) ==
    \E i \in 1..Len(accessLevels) :
        Active(accessLevels[i]) /\ accessLevels[i].name = name

C23_UniqueActiveName ==
    \A i, j \in 1..Len(accessLevels) :
        (/\ Active(accessLevels[i]) /\ Active(accessLevels[j])
         /\ accessLevels[i].name = accessLevels[j].name) => i = j

C23_ConflictInsertsNothing ==
    \A p \in Procs, name \in LevelNames :
        (CreateAccessLevel(p, name) /\ ActiveLevelNamed(name))
        => /\ pc'[p] = "idle"
           /\ result'[p].op = "CreateAccessLevel"
           /\ result'[p].res = "access level already exists"
           /\ accessLevels' = accessLevels

\* C23: CreateAccessLevel with a name that an access level which is not
\* soft-deleted holds returns the "already exists" error and inserts no row;
\* and whatever CreateAccessLevel calls run, one after another or at the
\* same time, no two access levels that are not soft-deleted have one name.
C23_AccessLevelNameUnique ==
    /\ []C23_UniqueActiveName
    /\ [][C23_ConflictInsertsNothing]_vars

\* Two calls for one new name ran at the same time: one inserted the row,
\* the other was refused by the unique index; and a later call for that name
\* was refused by the service's check.
C23_Witness ==
    \E p, q \in Procs :
        /\ p # q
        /\ result[p].op = "CreateAccessLevel" /\ result[p].res = "ok"
        /\ result[p].conc
        /\ pc[q] = "idle"
        /\ result[q].res = "access level already exists"
        /\ result[q].email = result[p].email
        /\ levelSeq > Len(accessLevels)

NotFoundErrors == {"user not found", "access level not found"}

ConflictErrors ==
    {"user with email already exists", "email is already taken",
     "access level already exists"}

\* The status the mapping gives an error: 404 for not found, 400 for a
\* conflict or a validation failure, 401 for a failed authentication, 500
\* for anything else.
MappedStatus(res) ==
    IF res \in NotFoundErrors THEN 404
    ELSE IF res \in ConflictErrors \cup ValidationErrors THEN 400
    ELSE IF res = "invalid email or password" THEN 401
    ELSE 500

\* C24: the status a handler answers a failed call with is 404 when the
\* error is not-found, 400 when it is a conflict or a validation failure,
\* 401 when authentication failed and 500 for any other failure; so
\* AssignAccessLevels and UpdateUser for an account or access level that is
\* not found are answered with 404.
C24_StatusMapping ==
    \A p \in Procs :
        (result[p].op # "none" /\ result[p].res # "ok")
        => HandlerStatus(result[p].op, result[p].res)
              = MappedStatus(result[p].res)

\* C25: DeleteUser changes nothing but deleted_at of the target's users row:
\* no other users row, no user_authentications row, no user_access_levels
\* row and no access_levels row changes, and GetUserAccessLevels for the
\* deleted account's id returns after the call what it returned before.
C25_DeleteFrame ==
    [][\A p \in Procs, id \in ServiceUserIds :
          DeleteUser(p, id)
          => /\ auths' = auths
             /\ userAccessLevels' = userAccessLevels
             /\ accessLevels' = accessLevels
             /\ Len(users') = Len(users)
             /\ \A i \in 1..Len(users) :
                   IF users[i].id = id /\ Active(users[i])
                   THEN /\ users'[i].deleted_at # NULL
                        /\ users'[i] = [users[i] EXCEPT
                                          !.deleted_at = users'[i].deleted_at]
                   ELSE users'[i] = users[i]
             /\ GetUserAccessLevels(id)' = GetUserAccessLevels(id)]_vars

\* Account 1 was assigned two access levels and then deleted:
\* GetUserAccessLevels still lists both.
C25_Witness ==
    /\ \E p \in Procs :
          /\ result[p].op = "DeleteUser" /\ result[p].id = 1
          /\ result[p].res = "ok"
    /\ \A i \in 1..Len(users) : ~Active(users[i])
    /\ Len(GetUserAccessLevels(1)) = 2
    /\ \A p \in Procs : pc[p] = "idle"

\* C27: whatever the interleaving of AssignAccessLevels for an account with
\* a DeleteUser of that account, no row of user_access_levels is inserted
\* or revived for an account that is soft-deleted at that time.
C27_NoAssignAfterDelete ==
    [][\A i \in 1..Len(userAccessLevels') :
          LET row == userAccessLevels'[i]
              written == \/ i > Len(userAccessLevels)
                         \/ row # userAccessLevels[i]
          IN (written /\ Active(row)) => GetByID(row.user_id) # NoUser]_vars

\* An account that is not soft-deleted has this email and was created with
\* this password.
CreatedWith(email, password) ==
    /\ \E i \in 1..Len(users) : Active(users[i]) /\ users[i].email = email
    /\ password = RequestPassword(email)

\* C26: AuthenticateUser(email, password) returns the account exactly when
\* an account that is not soft-deleted has that email and the password is
\* the one its CreateUser call was given; otherwise, and so for a deleted
\* account with its right password, it returns "invalid email or password".
C26_AuthenticateIffCreatedWith ==
    [][\A p \in Procs, email \in ServiceEmails, password \in Passwords :
          AuthenticateUser(p, email, password, "none")
          => IF CreatedWith(email, password)
             THEN /\ result'[p].res = "ok"
                  /\ result'[p].body.email = email
             ELSE result'[p].res = "invalid email or password"]_vars

\* Account 1 was deleted and a login with its email was then refused for
\* want of an account.
C26_Witness ==
    \E p, q \in Procs :
        /\ result[p].op = "DeleteUser" /\ result[p].id = 1
        /\ result[p].res = "ok"
        /\ result[q].op = "AuthenticateUser"
        /\ result[q].seq > result[p].seq
        /\ result[q].res = "invalid email or password"
        /\ result[q].email = "a@x.com"
        /\ result[q].cause = "email"

\* C29: for every page >= 1 and every pageSize an int can hold, the offset
\* ListUsers calls the repository's List with is (page - 1) times the page
\* size in use, as integers without wrap-around, and is not negative.
C29_OffsetWithoutWrapAround ==
    \A p \in Procs :
        (result[p].op = "ListUsers" /\ result[p].page >= 1)
        => /\ result[p].offset = (result[p].page - 1) * result[p].limit
           /\ result[p].offset >= 0

\* What Start has returned: never nil; the error of ListenAndServe, and no
\* timeout error, when the goroutine sent it before the ten seconds were
\* over; else the timeout error, with the server shut down.
C28_Returned ==
    starter.main = "returned"
    => /\ starter.ret \notin {"nil", "none"}
       /\ IF starter.sentFirst
          THEN /\ starter.ret = starter.serveErr
               /\ starter.ret \notin {TimeoutError, ErrServerClosed}
          ELSE /\ starter.ret = TimeoutError
               /\ starter.timer = "fired"
               /\ starter.inShutdown

C30_GoroutineTerminates ==
    /\ [](starter.serve = "send" => CanSend)
    /\ (starter.serve # "none") ~> (starter.serve = "done")

\* Start returned the timeout error while connections served requests, and
\* the goroutine has sent ErrServerClosed, which nobody receives.
C30_Witness ==
    /\ starter.main = "returned"
    /\ starter.ret = TimeoutError
    /\ starter.shutdownTimer = "off" /\ starter.conns > 0
    /\ starter.serve = "done"
    /\ starter.errChan = << ErrServerClosed >>

====
